---------------------------- MODULE Spec2Model ----------------------------
(***************************************************************************)
(* A model of the document extraction pipeline                             *)
(* (supabase/functions/process-bank-statement/index.ts) and of the rows it *)
(* persists in the transactions table.                                     *)
(*                                                                         *)
(* Each invocation of the serve handler is a process with a program        *)
(* counter; invocations interleave at the handler's await points.  A       *)
(* database update followed by the return of the response is one step: the *)
(* update is the step's effect, the response is recorded in the            *)
(* invocation's record.                                                    *)
(*                                                                         *)
(* Texts are sequences of one-character strings.  Amounts are integers     *)
(* (cents).                                                                *)
(*                                                                         *)
(* The module also models the CSV import: the functions of lib/csv.ts      *)
(* (sanitizer, amounts, dates, validator, tokenizer), each with a          *)
(* specification that calls it on its own, and the import dialog           *)
(* (components/settings/ImportCSVDialog.tsx), whose file readers and       *)
(* awaited inserts interleave with the user's actions.  There an amount is *)
(* kept as its decimal digits.  The export of lib/csv.ts is called on its  *)
(* own with the import of its result, and the upload hook                  *)
(* (hooks/useFileUpload.ts) is a process whose run of handleProcessWithAI  *)
(* interleaves at its awaits with the user adding and removing files.      *)
(***************************************************************************)
EXTENDS Integers, Sequences, FiniteSets, TLC

VARIABLES
    files,      \* table uploaded_files: id -> row
    ledger,     \* table transactions: a set of rows
    inv,        \* the invocations of the serve handler
    dialog,     \* the CSV import dialog, its file readers and its import runs
    probe,      \* a function of lib/csv.ts under evaluation: its input and result
    hook        \* useFileUpload: its props, its state and its run

vars == <<files, ledger, inv, dialog, probe, hook>>

---------------------------------------------------------------------------
(* Bounds of the model *)

MaxInvocations == 2

Invocations == 1..MaxInvocations

---------------------------------------------------------------------------
(* The world outside the handler *)

Null == "null"

Users == {"u1", "u2"}

\* The users whose credential comes with a request.  u2 owns a file and a
\* profile and sends no request of its own: what its requests would do is
\* what those of u1 do, with the two names exchanged.
Callers == {"u1"}

\* rows of uploaded_files that exist, and ids a request may name
ExistingFiles == {"f1", "f2"}
FileIds == ExistingFiles \cup {"f9"}
FileOwner == [f \in ExistingFiles |-> IF f = "f1" THEN "u1" ELSE "u2"]

\* rows of profiles that exist, and ids a request may name
ExistingProfiles == {"p1", "p2"}
ProfileIds == ExistingProfiles \cup {"p9"}
ProfileOwner == [p \in ExistingProfiles |-> IF p = "p1" THEN "u1" ELSE "u2"]

\* What the Authorization header and auth.getClaims can come to:
\*   "none"    no header, or one that does not start with "Bearer "
\*   "invalid" getClaims returns an error, no claims, or claims without sub
\*   "throws"  getClaims rejects
\*   a user    getClaims returns claims whose sub is that user
Credentials == {"none", "invalid", "throws"} \cup Callers

ERROR_MESSAGES ==
    [ UNAUTHORIZED         |-> "Acesso nao autorizado",
      FORBIDDEN            |-> "Voce nao tem permissao para acessar este recurso",
      NOT_FOUND            |-> "Arquivo nao encontrado",
      PROCESSING_FAILED    |-> "Falha ao processar o arquivo",
      RATE_LIMITED         |-> "Limite de requisicoes excedido. Tente novamente mais tarde.",
      INSUFFICIENT_CREDITS |-> "Creditos de IA insuficientes",
      INVALID_REQUEST      |-> "Requisicao invalida" ]

---------------------------------------------------------------------------
(* Responses *)

\* new Response(JSON.stringify({ error }), { status })
ErrorResponse(status, message) ==
    [status |-> status, error |-> message, success |-> FALSE, transactionsCount |-> 0]

\* new Response(JSON.stringify({ success: true, transactionsCount }), { status: 200 })
SuccessResponse(n) ==
    [status |-> 200, error |-> Null, success |-> TRUE, transactionsCount |-> n]

\* new Response(null, { headers: corsHeaders })
PreflightResponse ==
    [status |-> 200, error |-> Null, success |-> FALSE, transactionsCount |-> 0]

NoResponse ==
    [status |-> 0, error |-> Null, success |-> FALSE, transactionsCount |-> 0]

---------------------------------------------------------------------------
(* Texts: sequences of characters.  A character is a one-character string; *)
(* the characters that have no printable form carry a name.                *)

UpperCase == <<"A", "B", "C", "D", "E", "F", "G", "H", "I", "J", "K", "L", "M",
               "N", "O", "P", "Q", "R", "S", "T", "U", "V", "W", "X", "Y", "Z">>
LowerCase == <<"a", "b", "c", "d", "e", "f", "g", "h", "i", "j", "k", "l", "m",
               "n", "o", "p", "q", "r", "s", "t", "u", "v", "w", "x", "y", "z">>
Digits == {"0", "1", "2", "3", "4", "5", "6", "7", "8", "9"}

Range(s) == {s[k] : k \in DOMAIN s}

UpperLetters == Range(UpperCase)

\* the accented capitals of the texts, and their small letters
AccentedUpperCase == <<"Aacute", "Atilde", "Ccedil", "Eacute", "Ecirc">>
AccentedLowerCase == <<"aacute", "atilde", "ccedil", "eacute", "ecirc">>

\* String.prototype.toLowerCase, one character
ToLower(c) ==
    IF c \in UpperLetters
    THEN LowerCase[CHOOSE k \in DOMAIN UpperCase : UpperCase[k] = c]
    ELSE IF c \in Range(AccentedUpperCase)
    THEN AccentedLowerCase[CHOOSE k \in DOMAIN AccentedUpperCase : AccentedUpperCase[k] = c]
    ELSE c

LowerText(s) == [k \in DOMAIN s |-> ToLower(s[k])]

\* \w of a regular expression
IsWordChar(c) == c \in Range(UpperCase) \cup Range(LowerCase) \cup Digits \cup {"_"}

\* [\x00-\x08\x0B\x0C\x0E-\x1F\x7F]: NUL, BEL, VT, FF, ESC, DEL stand for the class
ControlChars == {"NUL", "BEL", "VT", "FF", "ESC", "DEL"}

\* what String.prototype.trim removes at both ends
WhiteSpace == {" ", "TAB", "LF", "CR", "VT", "FF", "NBSP", "BOM"}

RECURSIVE TrimLeft(_)
TrimLeft(s) ==
    IF s # <<>> /\ Head(s) \in WhiteSpace THEN TrimLeft(Tail(s)) ELSE s

RECURSIVE TrimRight(_)
TrimRight(s) ==
    IF s # <<>> /\ s[Len(s)] \in WhiteSpace
    THEN TrimRight(SubSeq(s, 1, Len(s) - 1))
    ELSE s

\* String.prototype.trim
Trim(s) == TrimRight(TrimLeft(s))

\* s.replace(/[...]/g, ''): drop every character of the class
RemoveChars(s, class) == SelectSeq(s, LAMBDA c : c \notin class)

\* s without the characters at the positions in covered
Without(s, covered) ==
    SelectSeq([k \in DOMAIN s |-> IF k \in covered THEN "" ELSE s[k]],
              LAMBDA c : c # "")

JavascriptScheme == <<"j", "a", "v", "a", "s", "c", "r", "i", "p", "t", ":">>

\* s holds prefix at position i, letter case aside
MatchesAt(s, i, prefix) ==
    /\ i >= 1
    /\ i + Len(prefix) - 1 <= Len(s)
    /\ \A d \in DOMAIN prefix : ToLower(s[i + d - 1]) = prefix[d]

StartsWithNoCase(s, prefix) == MatchesAt(s, 1, prefix)

\* s.replace(/javascript:/gi, ''): matches are found left to right and do not
\* overlap; no two occurrences of the scheme overlap, so every occurrence is
\* a match
RemoveJavascript(s) ==
    Without(s, {k \in DOMAIN s :
                  \E i \in (k - Len(JavascriptScheme) + 1)..k :
                      MatchesAt(s, i, JavascriptScheme)})

\* length of the longest prefix of s made of word characters (a greedy \w*)
WordRun(s) ==
    LET stops == {e \in DOMAIN s : ~IsWordChar(s[e])}
    IN  IF stops = {} THEN Len(s)
        ELSE (CHOOSE e \in stops : \A j \in stops : e <= j) - 1

\* length of the match of /on\w+=/i at the start of s, 0 when there is none.
\* "=" is no word character, so only the longest run of \w can be followed by it.
EventHandlerMatch(s) ==
    IF StartsWithNoCase(s, <<"o", "n">>)
    THEN LET run == WordRun(SubSeq(s, 3, Len(s)))
         IN  IF run >= 1 /\ Len(s) >= run + 3 /\ s[run + 3] = "="
             THEN run + 3
             ELSE 0
    ELSE 0

\* s.replace(/on\w+=/gi, ''): matches are found left to right; a place inside
\* a match where the pattern matches too ends at the same "=", so what goes
\* is what the matches at all places cover
RemoveEventHandlers(s) ==
    Without(s, {k \in DOMAIN s :
                  \E i \in 1..k :
                      /\ s[i] \in {"o", "O"}
                      /\ k < i + EventHandlerMatch(SubSeq(s, i, Len(s)))})

\* csv.ts sanitizeText
sanitizeText(text) ==
    IF text = <<>> THEN text
    ELSE Trim(RemoveChars(
             RemoveEventHandlers(RemoveJavascript(RemoveChars(text, {"<", ">"}))),
             ControlChars))

---------------------------------------------------------------------------
(* What the model may extract from a document *)

Abs(x) == IF x < 0 THEN 0 - x ELSE x

\* null in a field that holds a text otherwise: a text of one reserved
\* character that no other text holds
NullText == <<"null">>

TxPlain ==
    [ description      |-> <<"P", "i", "x">>,
      amount           |-> 123456,
      type             |-> "expense",
      payment_method   |-> "pix",
      payment_source   |-> NullText,
      transaction_date |-> "2024-01-05",
      notes            |-> NullText ]

TxNegativeMarkup ==
    [ description      |-> <<"<", "b", ">", "T", "e", "d">>,
      amount           |-> 0 - 5000,
      type             |-> "expense",
      payment_method   |-> "debito",
      payment_source   |-> <<" ", "N", "u">>,
      transaction_date |-> "2024-01-06",
      notes            |-> <<"o", "n", "x", "=", "1">> ]

TxZero ==
    [ description      |-> <<"T", "a", "x", "a">>,
      amount           |-> 0,
      type             |-> "income",
      payment_method   |-> "boleto",
      payment_source   |-> NullText,
      transaction_date |-> "2024-01-07",
      notes            |-> NullText ]

\* values the "transactions" member of the model's JSON may have
ExtractedLists == { <<>>, <<TxPlain>>, <<TxNegativeMarkup, TxZero>> }

\* The model's textual answer, as a sequence of tokens: an opening Markdown
\* code fence with the word json, a bare code fence, white space, or a stretch of text that is a JSON object with a
\* transactions array, a JSON object without one, a JSON object whose
\* transactions member is no array, the JSON value null, or no JSON at all.
FenceJson  == [kind |-> "fence_json", value |-> <<>>]
Fence      == [kind |-> "fence", value |-> <<>>]
Blank      == [kind |-> "whitespace", value |-> <<>>]
JsonTexts ==
    {[kind |-> "json_transactions", value |-> l] : l \in ExtractedLists}
    \cup {[kind |-> k, value |-> <<>>] :
            k \in {"json_no_transactions", "json_transactions_no_array",
                   "json_null", "not_json"}}

AIContents ==
    { pre \o <<j>> \o post :
        pre  \in {<<>>, <<FenceJson>>, <<Fence>>, <<FenceJson, Blank>>, <<Fence, Blank>>,
                  <<Blank, FenceJson, Blank>>},
        j    \in JsonTexts,
        post \in {<<>>, <<Fence>>, <<Blank, Fence>>, <<Blank, Fence, Blank>>} }

RECURSIVE TrimTokensLeft(_)
TrimTokensLeft(c) ==
    IF c # <<>> /\ Head(c) = Blank THEN TrimTokensLeft(Tail(c)) ELSE c

RECURSIVE TrimTokensRight(_)
TrimTokensRight(c) ==
    IF c # <<>> /\ c[Len(c)] = Blank
    THEN TrimTokensRight(SubSeq(c, 1, Len(c) - 1))
    ELSE c

TrimTokens(c) == TrimTokensRight(TrimTokensLeft(c))

\* index.ts 304-312: strip a leading fence (with or without json) and a trailing one
StripLeadingFence(c) ==
    IF c # <<>> /\ Head(c) \in {FenceJson, Fence} THEN Tail(c) ELSE c

StripTrailingFence(c) ==
    IF c # <<>> /\ c[Len(c)] = Fence THEN SubSeq(c, 1, Len(c) - 1) ELSE c

cleanedContent(aiContent) ==
    TrimTokens(StripTrailingFence(StripLeadingFence(TrimTokens(aiContent))))

\* index.ts 313: JSON.parse throws unless the whole text is one JSON value
JsonParses(c) ==
    /\ Len(c) = 1
    /\ c[1].kind \in {"json_transactions", "json_no_transactions",
                      "json_transactions_no_array", "json_null"}

\* what JSON.parse made of the cleaned text
AnswerKind(c) == IF JsonParses(c) THEN c[1].kind ELSE "not_json"

\* index.ts 326: reading extractedData.transactions throws a TypeError when
\* extractedData is null
ReadThrows(c) == c[1].kind = "json_null"

\* index.ts 326: extractedData.transactions is there and is an array
HasTransactionsArray(c) == c[1].kind = "json_transactions"

\* transactionsToInsert as it would be if it took the userId of the body
transactionsToInsert_trustsBody(list, profileId, userId, claimedUserId) ==
    [ k \in DOMAIN list |->
        [ description      |-> list[k].description,
          amount           |-> Abs(list[k].amount),
          type             |-> list[k].type,
          payment_method   |-> list[k].payment_method,
          payment_source   |-> list[k].payment_source,
          transaction_date |-> list[k].transaction_date,
          notes            |-> list[k].notes,
          profile_id       |-> profileId,
          user_id          |-> IF claimedUserId # Null THEN claimedUserId
                                                       ELSE userId ] ]

\* index.ts 339-349
transactionsToInsert(list, profileId, userId, claimedUserId) ==
    [ k \in DOMAIN list |->
        [ description      |-> list[k].description,
          amount           |-> Abs(list[k].amount),
          type             |-> list[k].type,
          payment_method   |-> list[k].payment_method,
          payment_source   |-> list[k].payment_source,
          transaction_date |-> list[k].transaction_date,
          notes            |-> list[k].notes,
          profile_id       |-> profileId,
          user_id          |-> userId ] ]

\* GatewayFailure as it would be without the branch for 402
GatewayFailure_no402(status) ==
    IF status = 429 THEN ErrorResponse(429, ERROR_MESSAGES.RATE_LIMITED)
    ELSE ErrorResponse(500, ERROR_MESSAGES.PROCESSING_FAILED)

\* index.ts 248-283: what the handler answers to a non-success gateway status
GatewayFailure(status) ==
    IF status = 429 THEN ErrorResponse(429, ERROR_MESSAGES.RATE_LIMITED)
    ELSE IF status = 402 THEN ErrorResponse(402, ERROR_MESSAGES.INSUFFICIENT_CREDITS)
    ELSE ErrorResponse(500, ERROR_MESSAGES.PROCESSING_FAILED)

\* non-success statuses the gateway may answer with
GatewayErrorStatuses == {429, 402, 500, 503}

---------------------------------------------------------------------------
(* The request body: JSON or not; a JSON body may lack either id and may   *)
(* carry a userId of the client's choosing, which the handler never reads. *)

\* a body that is no JSON
NoBody == [json |-> FALSE, fileId |-> Null, profileId |-> Null]

\* req.json(): the handler reads fileId and profileId off it and nothing else
RequestBodies ==
    [json : {TRUE}, fileId : FileIds \cup {Null}, profileId : ProfileIds \cup {Null}]
    \cup {NoBody}

\* the userId member a client may put in the body
ClaimedUserIds == Users \cup {Null}

---------------------------------------------------------------------------
(* lib/csv.ts: numbers.  A number is kept as its decimal digits, so that   *)
(* the amounts up to MAX_AMOUNT and their fractions are exact: int holds   *)
(* the integer digits without leading zeros, frac the fraction digits      *)
(* without trailing zeros.                                                 *)

DigitChars == <<"0", "1", "2", "3", "4", "5", "6", "7", "8", "9">>

DigitValue(c) == (CHOOSE k \in DOMAIN DigitChars : DigitChars[k] = c) - 1

RECURSIVE StripLeadingZeros(_)
StripLeadingZeros(d) ==
    IF d # <<>> /\ Head(d) = "0" THEN StripLeadingZeros(Tail(d)) ELSE d

RECURSIVE StripTrailingZeros(_)
StripTrailingZeros(d) ==
    IF d # <<>> /\ d[Len(d)] = "0"
    THEN StripTrailingZeros(SubSeq(d, 1, Len(d) - 1))
    ELSE d

\* the number with these integer and fraction digits; -0 is kept as 0
Number(neg, int, frac) ==
    LET i == StripLeadingZeros(int)
        f == StripTrailingZeros(frac)
    IN  [ nan |-> FALSE, neg |-> neg /\ (i # <<>> \/ f # <<>>), int |-> i, frac |-> f ]

NaN == [ nan |-> TRUE, neg |-> FALSE, int |-> <<>>, frac |-> <<>> ]

Zero == Number(FALSE, <<>>, <<>>)

\* a < b for digit sequences read as fractions 0.a and 0.b
RECURSIVE FracLess(_, _)
FracLess(a, b) ==
    IF b = <<>> THEN FALSE
    ELSE IF a = <<>> THEN TRUE
    ELSE IF Head(a) # Head(b) THEN DigitValue(Head(a)) < DigitValue(Head(b))
    ELSE FracLess(Tail(a), Tail(b))

\* a < b for numbers that are not negative
MagnitudeLess(a, b) ==
    IF Len(a.int) # Len(b.int) THEN Len(a.int) < Len(b.int)
    ELSE IF a.int # b.int THEN FracLess(a.int, b.int)
    ELSE FracLess(a.frac, b.frac)

\* a < b; a comparison with NaN is false
NumLess(a, b) ==
    IF a.nan \/ b.nan THEN FALSE
    ELSE IF a.neg /\ ~b.neg THEN TRUE
    ELSE IF ~a.neg /\ b.neg THEN FALSE
    ELSE IF a.neg THEN MagnitudeLess(b, a)
    ELSE MagnitudeLess(a, b)

\* csv.ts 15-16
MAX_AMOUNT ==
    Number(FALSE, <<"9", "9", "9", "9", "9", "9", "9", "9", "9">>, <<"9", "9">>)
MIN_AMOUNT == Number(FALSE, <<>>, <<"0", "1">>)

\* length of the longest prefix of s made of digits
RECURSIVE DigitRun(_)
DigitRun(s) ==
    IF s # <<>> /\ Head(s) \in Digits THEN 1 + DigitRun(Tail(s)) ELSE 0

\* parseFloat of a text without leading white space and without exponent:
\* the longest prefix that is a decimal literal, NaN when there is none
parseFloat(s) ==
    LET signed == s # <<>> /\ Head(s) \in {"-", "+"}
        body   == IF signed THEN Tail(s) ELSE s
        n      == DigitRun(body)
        rest   == SubSeq(body, n + 1, Len(body))
        m      == IF rest # <<>> /\ Head(rest) = "." THEN DigitRun(Tail(rest)) ELSE 0
    IN  IF n = 0 /\ m = 0 THEN NaN
        ELSE Number(signed /\ Head(s) = "-",
                    SubSeq(body, 1, n),
                    SubSeq(rest, 2, m + 1))

\* s.replace(',', '.'): the first comma only
RECURSIVE ReplaceFirstComma(_)
ReplaceFirstComma(s) ==
    IF s = <<>> THEN <<>>
    ELSE IF Head(s) = "," THEN <<".">> \o Tail(s)
    ELSE <<Head(s)>> \o ReplaceFirstComma(Tail(s))

\* \s of a regular expression
RegexSpace == {" ", "TAB", "LF", "CR", "VT", "FF", "NBSP", "BOM"}

\* csv.ts parseCurrency
parseCurrency(value) ==
    LET cleaned == ReplaceFirstComma(
                       RemoveChars(RemoveChars(value, {"R", "$"} \cup RegexSpace), {"."}))
        n == parseFloat(TrimLeft(cleaned))
    IN  IF n.nan THEN Zero ELSE n

\* GroupThousands as it would be with the separator of en-US
RECURSIVE GroupThousands_comma(_)
GroupThousands_comma(d) ==
    IF Len(d) <= 3 THEN d
    ELSE GroupThousands_comma(SubSeq(d, 1, Len(d) - 3)) \o <<",">>
             \o SubSeq(d, Len(d) - 2, Len(d))

\* the digits d with a "." before every group of three counted from the right
RECURSIVE GroupThousands(_)
GroupThousands(d) ==
    IF Len(d) <= 3 THEN d
    ELSE GroupThousands(SubSeq(d, 1, Len(d) - 3)) \o <<".">> \o SubSeq(d, Len(d) - 2, Len(d))

\* d + 1 for a digit sequence
RECURSIVE Increment(_)
Increment(d) ==
    IF d = <<>> THEN <<"1">>
    ELSE IF d[Len(d)] = "9" THEN Increment(SubSeq(d, 1, Len(d) - 1)) \o <<"0">>
    ELSE SubSeq(d, 1, Len(d) - 1) \o <<DigitChars[DigitValue(d[Len(d)]) + 2]>>

\* csv.ts formatCurrency: toLocaleString('pt-BR') with exactly two fraction
\* digits, rounded half away from zero
formatCurrency(value) ==
    LET padded  == value.frac \o <<"0", "0", "0">>
        cents   == value.int \o SubSeq(padded, 1, 2)
        rounded == IF DigitValue(padded[3]) >= 5 THEN Increment(cents) ELSE cents
        all     == IF Len(rounded) < 3
                   THEN SubSeq(<<"0", "0", "0">>, 1, 3 - Len(rounded)) \o rounded
                   ELSE rounded
        int     == SubSeq(all, 1, Len(all) - 2)
        isZero  == StripLeadingZeros(all) = <<>>
    IN  (IF value.neg /\ ~isZero THEN <<"-">> ELSE <<>>)
        \o GroupThousands(int) \o <<",">> \o SubSeq(all, Len(all) - 1, Len(all))

---------------------------------------------------------------------------
(* lib/csv.ts: dates *)

\* the value of a sequence of digits
RECURSIVE DigitsValue(_)
DigitsValue(d) ==
    IF d = <<>> THEN 0
    ELSE 10 * DigitsValue(SubSeq(d, 1, Len(d) - 1)) + DigitValue(d[Len(d)])

\* s.split(c) of the characters lo..hi of s: the halves are split and the
\* piece that ends the first half is joined to the piece that begins the second
RECURSIVE SplitRange(_, _, _, _)
SplitRange(s, c, lo, hi) ==
    IF lo > hi THEN << <<>> >>
    ELSE IF lo = hi THEN (IF s[lo] = c THEN << <<>>, <<>> >> ELSE << << s[lo] >> >>)
    ELSE LET mid   == (lo + hi) \div 2
             left  == SplitRange(s, c, lo, mid)
             right == SplitRange(s, c, mid + 1, hi)
         IN  SubSeq(left, 1, Len(left) - 1)
               \o << left[Len(left)] \o right[1] >>
               \o Tail(right)

\* String.prototype.split with a one-character separator
Split(s, c) == SplitRange(s, c, 1, Len(s))

\* s.padStart(2, '0')
PadStart2(s) ==
    IF Len(s) >= 2 THEN s ELSE SubSeq(<<"0", "0">>, 1, 2 - Len(s)) \o s

\* new Date().toISOString().split('T')[0]: the day the import runs on
Today == <<"2", "0", "2", "5", "-", "0", "6", "-", "1", "5">>

\* now.getFullYear()
CurrentYear == DigitsValue(SubSeq(Today, 1, 4))

\* csv.ts parseDate
parseDate(dateStr) ==
    LET parts == Split(dateStr, "/")
    IN  IF Len(parts) = 3
        THEN parts[3] \o <<"-">> \o PadStart2(parts[2]) \o <<"-">> \o PadStart2(parts[1])
        ELSE IF "-" \in Range(dateStr) THEN Split(dateStr, "T")[1]
        ELSE Today

\* /^\d{4}-\d{2}-\d{2}$/
IsDateShape(s) ==
    /\ Len(s) = 10
    /\ \A k \in {1, 2, 3, 4, 6, 7, 9, 10} : s[k] \in Digits
    /\ s[5] = "-" /\ s[8] = "-"

\* new Date(s) of a text of the shape YYYY-MM-DD is a date when the month and
\* the day exist, Invalid Date otherwise
IsCalendarDate(s) ==
    /\ DigitsValue(SubSeq(s, 6, 7)) \in 1..12
    /\ DigitsValue(SubSeq(s, 9, 10)) \in 1..31

\* csv.ts 298-303: transactionDate < minDate || transactionDate > maxDate,
\* with minDate 1990-01-01 and maxDate the 31st of December of next year at
\* midnight local time (a time zone at or west of UTC, as in Brazil); every
\* comparison with Invalid Date is false
DateOutOfRange(s) ==
    /\ IsCalendarDate(s)
    /\ \/ DigitsValue(SubSeq(s, 1, 4)) < 1990
       \/ DigitsValue(SubSeq(s, 1, 4)) > CurrentYear + 1

---------------------------------------------------------------------------
(* lib/csv.ts: the validator *)

\* csv.ts 17-19
MAX_DESCRIPTION_LENGTH == 500
MAX_NOTES_LENGTH == 1000
MAX_PAYMENT_SOURCE_LENGTH == 100

\* the names that every object literal inherits from Object.prototype and
\* that a lower-cased text can be: obj.constructor is the function Object,
\* obj.__proto__ is Object.prototype
InheritedKeys == { <<"c", "o", "n", "s", "t", "r", "u", "c", "t", "o", "r">>, <<"_", "_", "p", "r", "o", "t", "o", "_", "_">> }

\* the value of an inherited member: no string, and truthy
Inherited == "inherited"

\* csv.ts 95-98: TYPE_REVERSE[normalizedType] || 'expense'
TYPE_REVERSE(normalizedType) ==
    CASE normalizedType = <<"r", "e", "c", "e", "i", "t", "a">> -> "income"
      [] normalizedType = <<"d", "e", "s", "p", "e", "s", "a">> -> "expense"
      [] normalizedType \in InheritedKeys -> Inherited
      [] OTHER -> "expense"

\* csv.ts 78-88: PAYMENT_METHOD_REVERSE[normalizedMethod] || 'pix'
PAYMENT_METHOD_REVERSE(normalizedMethod) ==
    CASE normalizedMethod = <<"p", "i", "x">> -> "pix"
      [] normalizedMethod \in InheritedKeys -> Inherited
      [] normalizedMethod = <<"b", "o", "l", "e", "t", "o">> -> "boleto"
      [] normalizedMethod \in {<<"c", "r", "e", "d", "i", "t", "o">>, <<"c", "r", "eacute", "d", "i", "t", "o">>} -> "credito"
      [] normalizedMethod \in {<<"d", "e", "b", "i", "t", "o">>, <<"d", "eacute", "b", "i", "t", "o">>} -> "debito"
      [] normalizedMethod = <<"d", "i", "n", "h", "e", "i", "r", "o">> -> "dinheiro"
      [] normalizedMethod \in {<<"t", "r", "a", "n", "s", "f", "e", "r", "e", "n", "c", "i", "a">>, <<"t", "r", "a", "n", "s", "f", "e", "r", "ecirc", "n", "c", "i", "a">>} -> "transferencia"
      [] OTHER -> "pix"

\* csv.ts 275-283: rawTransaction
rawTransaction(row) ==
    [ description      |-> sanitizeText(Trim(row.descricao)),
      amount           |-> parseCurrency(row.valor),
      type             |-> TYPE_REVERSE(Trim(LowerText(row.tipo))),
      payment_method   |-> PAYMENT_METHOD_REVERSE(Trim(LowerText(row.forma_pagamento))),
      payment_source   |-> IF Trim(row.fonte_pagamento) # <<>>
                           THEN sanitizeText(Trim(row.fonte_pagamento))
                           ELSE NullText,
      transaction_date |-> parseDate(row.data),
      notes            |-> IF Trim(row.observacao) # <<>>
                           THEN sanitizeText(Trim(row.observacao))
                           ELSE NullText ]

Issue(field, message) == << [field |-> field, message |-> message] >>

\* csv.ts 22-42: the issues transactionSchema.safeParse finds, in the order of
\* the schema's fields; every check of every field is run
SchemaIssues(t) ==
    (IF Len(Trim(t.description)) < 1
     THEN Issue("description", "Descricao e obrigatoria") ELSE <<>>)
    \o (IF Len(Trim(t.description)) > MAX_DESCRIPTION_LENGTH
        THEN Issue("description", "Descricao deve ter no maximo 500 caracteres") ELSE <<>>)
    \o (IF NumLess(t.amount, MIN_AMOUNT)
        THEN Issue("amount", "Valor minimo e R$ 0.01") ELSE <<>>)
    \o (IF NumLess(MAX_AMOUNT, t.amount)
        THEN Issue("amount", "Valor maximo e R$ 999.999.999,99") ELSE <<>>)
    \o (IF t.type \notin {"income", "expense"}
        THEN Issue("type", "Invalid enum value") ELSE <<>>)
    \o (IF t.payment_method \notin {"pix", "boleto", "credito", "debito", "dinheiro",
                                    "transferencia"}
        THEN Issue("payment_method", "Invalid enum value") ELSE <<>>)
    \o (IF t.payment_source # NullText /\ Len(t.payment_source) > MAX_PAYMENT_SOURCE_LENGTH
        THEN Issue("payment_source", "Fonte deve ter no maximo 100 caracteres") ELSE <<>>)
    \o (IF ~IsDateShape(t.transaction_date)
        THEN Issue("transaction_date", "Data invalida") ELSE <<>>)
    \o (IF t.notes # NullText /\ Len(t.notes) > MAX_NOTES_LENGTH
        THEN Issue("notes", "Observacao deve ter no maximo 1000 caracteres") ELSE <<>>)

\* csv.ts 22-42: result.data, the transforms of the schema applied
SchemaOutput(t) ==
    [ t EXCEPT
        !.description    = sanitizeText(Trim(t.description)),
        !.payment_source = IF t.payment_source = NullText THEN NullText
                           ELSE sanitizeText(t.payment_source),
        !.notes          = IF t.notes = NullText THEN NullText
                           ELSE sanitizeText(t.notes) ]

\* ValidateRow as it would be if a row that fails a check were left out
\* without a word
ValidateRow_silent(row, rowNumber) ==
    [ errors |-> <<>>,
      data   |-> IF SchemaIssues(rawTransaction(row)) = <<>>
                    /\ ~DateOutOfRange(rawTransaction(row).transaction_date)
                 THEN << SchemaOutput(rawTransaction(row)) >>
                 ELSE <<>> ]

\* csv.ts 270-313, one turn of the forEach: the errors the row adds and the
\* transactions it adds (one or none)
ValidateRow(row, rowNumber) ==
    LET t      == rawTransaction(row)
        issues == SchemaIssues(t)
    IN  IF issues # <<>>
        THEN [ errors |-> [k \in DOMAIN issues |->
                             [ row |-> rowNumber, field |-> issues[k].field,
                               message |-> issues[k].message ]],
               data   |-> <<>> ]
        ELSE IF DateOutOfRange(t.transaction_date)
        THEN [ errors |-> << [ row |-> rowNumber, field |-> "transaction_date",
                               message |-> "Data fora do intervalo permitido" ] >>,
               data   |-> <<>> ]
        ELSE [ errors |-> <<>>, data |-> << SchemaOutput(t) >> ]

\* the concatenation of the sequences seqs[lo], ..., seqs[hi]
RECURSIVE Concat(_, _, _)
Concat(seqs, lo, hi) ==
    IF lo > hi THEN <<>>
    ELSE IF lo = hi THEN seqs[lo]
    ELSE Concat(seqs, lo, (lo + hi) \div 2) \o Concat(seqs, (lo + hi) \div 2 + 1, hi)

\* csv.ts validateTransactions
validateTransactions(csvRows) ==
    LET perRow == [k \in DOMAIN csvRows |-> ValidateRow(csvRows[k], k)]
        errors == Concat([k \in DOMAIN csvRows |-> perRow[k].errors], 1, Len(csvRows))
        data   == Concat([k \in DOMAIN csvRows |-> perRow[k].data], 1, Len(csvRows))
    IN  [ valid |-> errors = <<>>, errors |-> errors, validTransactions |-> data ]

---------------------------------------------------------------------------
(* lib/csv.ts: the tokenizer *)

\* csvContent.split(/\r?\n/): the pieces between line feeds, a piece that a
\* line feed ends without the carriage return before that line feed
SplitLines(content) ==
    LET pieces == Split(content, "LF")
    IN  [k \in DOMAIN pieces |->
           IF k < Len(pieces) /\ pieces[k] # <<>> /\ pieces[k][Len(pieces[k])] = "CR"
           THEN SubSeq(pieces[k], 1, Len(pieces[k]) - 1)
           ELSE pieces[k]]

\* IsNonBlank as it would be without the filter
IsNonBlank_any(line) == TRUE

\* filter(line => line.trim())
IsNonBlank(line) == Trim(line) # <<>>

\* csv.ts 213-231: the turn of the loop of parseCSVLine for position k, from
\* the state st of the loop (i, current, inQuotes, result); a position that
\* the turn of a doubled quote has stepped over has no turn
ScanStep(line, delimiter, k, st) ==
    IF k < st.i THEN st
    ELSE IF line[k] = "QUOTE"
    THEN IF st.inQuotes /\ k < Len(line) /\ line[k + 1] = "QUOTE"
         THEN [ st EXCEPT !.i = k + 2, !.current = @ \o <<"QUOTE">> ]
         ELSE [ st EXCEPT !.i = k + 1, !.inQuotes = ~@ ]
    ELSE IF line[k] = delimiter /\ ~st.inQuotes
    THEN [ st EXCEPT !.i = k + 1, !.current = <<>>,
                     !.result = @ \o << Trim(st.current) >> ]
    ELSE [ st EXCEPT !.i = k + 1, !.current = @ \o << line[k] >> ]

\* csv.ts 213-229: the turns of the loop for the positions lo..hi in their
\* order, the first half of them done before the second half is begun
RECURSIVE ScanLine(_, _, _, _, _)
ScanLine(line, delimiter, lo, hi, st) ==
    IF lo > hi THEN st
    ELSE IF lo = hi THEN ScanStep(line, delimiter, lo, st)
    ELSE LET mid   == (lo + hi) \div 2
             first == ScanLine(line, delimiter, lo, mid, st)
         IN  IF first.i > lo
             THEN ScanLine(line, delimiter, mid + 1, hi, first)
             ELSE first

\* csv.ts 206-208 and 213-232: the fields of the line for a delimiter
SplitFields(line, delimiter) ==
    LET st == ScanLine(line, delimiter, 1, Len(line),
                       [ i |-> 1, current |-> <<>>, inQuotes |-> FALSE,
                         result |-> <<>> ])
    IN  st.result \o << Trim(st.current) >>

\* csv.ts parseCSVLine: the delimiter is chosen line by line
parseCSVLine(line) ==
    SplitFields(line, IF ";" \in Range(line) THEN ";" ELSE ",")

\* csv.ts 236-239: for every name of possibleNames in turn, the index of the
\* name among the normalized headers, 0 for a name that is no header.  The
\* headers are those of the file, so the indexes are found once for a file
\* and not once for every row.
ColumnIndexes(headers, possibleNames) ==
    LET normalizedHeaders == [k \in DOMAIN headers |-> Trim(LowerText(headers[k]))] \o <<>>
        indexOf(name) ==
            LET hits == {k \in DOMAIN normalizedHeaders : normalizedHeaders[k] = name}
            IN  IF hits = {} THEN 0 ELSE CHOOSE k \in hits : \A j \in hits : k <= j
    IN  [n \in DOMAIN possibleNames |-> indexOf(LowerText(possibleNames[n]))] \o <<>>

\* csv.ts findColumn, given the indexes of the possible names: the value at
\* the first index that the row has a value for.  Every caller replaces
\* undefined and the empty text alike by a default, and the empty text stands
\* for both here.
findColumn(indexes, values) ==
    LET found == {n \in DOMAIN indexes : indexes[n] # 0 /\ indexes[n] <= Len(values)}
    IN  IF found = {} THEN <<>>
        ELSE values[indexes[CHOOSE n \in found : \A m \in found : n <= m]]

OrDefault(value, default) == IF value = <<>> THEN default ELSE value

\* csv.ts 190-196: the names a column of each field may have
Columns(headers) ==
    [ descricao |-> ColumnIndexes(headers,
          << <<"d", "e", "s", "c", "r", "i", "ccedil", "atilde", "o">>, <<"d", "e", "s", "c", "r", "i", "c", "a", "o">>, <<"d", "e", "s", "c", "r", "i", "p", "t", "i", "o", "n">>, <<"p", "a", "g", "a", "m", "e", "n", "t", "o">>, <<"n", "o", "m", "e">> >>),
      valor |-> ColumnIndexes(headers,
          << <<"v", "a", "l", "o", "r">>, <<"v", "a", "l", "u", "e">>, <<"a", "m", "o", "u", "n", "t">>, <<"q", "u", "a", "n", "t", "i", "a">> >>),
      tipo |-> ColumnIndexes(headers,
          << <<"t", "i", "p", "o">>, <<"t", "y", "p", "e">>, <<"c", "a", "t", "e", "g", "o", "r", "i", "a">> >>),
      forma_pagamento |-> ColumnIndexes(headers,
          << <<"f", "o", "r", "m", "a", " ", "d", "e", " ", "p", "a", "g", "a", "m", "e", "n", "t", "o">>, <<"f", "o", "r", "m", "a", "_", "p", "a", "g", "a", "m", "e", "n", "t", "o">>, <<"p", "a", "y", "m", "e", "n", "t", "_", "m", "e", "t", "h", "o", "d">>,
             <<"m", "e", "t", "o", "d", "o">>, <<"m", "eacute", "t", "o", "d", "o">> >>),
      fonte_pagamento |-> ColumnIndexes(headers,
          << <<"f", "o", "n", "t", "e">>, <<"f", "o", "n", "t", "e", "/", "c", "a", "r", "t", "atilde", "o">>, <<"f", "o", "n", "t", "e", "_", "p", "a", "g", "a", "m", "e", "n", "t", "o">>, <<"c", "a", "r", "t", "atilde", "o">>, <<"c", "a", "r", "t", "a", "o">>,
             <<"p", "a", "g", "a", "d", "o", "r">>, <<"s", "o", "u", "r", "c", "e">> >>),
      data |-> ColumnIndexes(headers,
          << <<"d", "a", "t", "a">>, <<"d", "a", "t", "e">>, <<"t", "r", "a", "n", "s", "a", "c", "t", "i", "o", "n", "_", "d", "a", "t", "e">>, <<"d", "i", "a">> >>),
      observacao |-> ColumnIndexes(headers,
          << <<"o", "b", "s", "e", "r", "v", "a", "ccedil", "atilde", "o">>, <<"o", "b", "s", "e", "r", "v", "a", "c", "a", "o">>, <<"n", "o", "t", "e", "s">>, <<"o", "b", "s">>, <<"c", "o", "m", "e", "n", "t", "aacute", "r", "i", "o">>,
             <<"c", "o", "m", "e", "n", "t", "a", "r", "i", "o">> >>) ]

\* csv.ts 189-197
RowOf(columns, values) ==
    [ descricao       |-> findColumn(columns.descricao, values),
      valor           |-> OrDefault(findColumn(columns.valor, values), <<"0">>),
      tipo            |-> OrDefault(findColumn(columns.tipo, values), <<"e", "x", "p", "e", "n", "s", "e">>),
      forma_pagamento |-> OrDefault(findColumn(columns.forma_pagamento, values), <<"p", "i", "x">>),
      fonte_pagamento |-> findColumn(columns.fonte_pagamento, values),
      data            |-> findColumn(columns.data, values),
      observacao      |-> findColumn(columns.observacao, values) ]

EMPTY_FILE == "O arquivo CSV esta vazio ou nao contem dados"

\* csv.ts parseCSV: the rows, or the error it throws
parseCSV(csvContent) ==
    LET lines == SelectSeq(SplitLines(csvContent), IsNonBlank)
    IN  IF Len(lines) < 2 THEN [ error |-> EMPTY_FILE, rows |-> <<>> ]
        ELSE LET headerLine == IF Head(lines[1]) = "BOM" THEN Tail(lines[1]) ELSE lines[1]
                 headers == parseCSVLine(headerLine)
                 columns == Columns(headers)
                 values  == [k \in 1..(Len(lines) - 1) |-> parseCSVLine(lines[k + 1])]
                 hasData(v) == \E j \in DOMAIN v : Trim(v[j]) # <<>>
                 kept    == SelectSeq(values, hasData)
             IN  [ error |-> Null,
                   rows  |-> [k \in DOMAIN kept |-> RowOf(columns, kept[k])] ]

---------------------------------------------------------------------------
(* components/settings/ImportCSVDialog.tsx: the files a user may drop and  *)
(* the state of the dialog                                                 *)

\* csv.ts 323
MAX_IMPORT_BATCH_SIZE == 500

\* ImportCSVDialog.tsx 141
batchSize == 50

\* how many files the user drops, each of them once, and how many times
\* import is clicked
MaxDrops == 2
MaxRuns == 2

HeaderLine == <<"n", "o", "m", "e", ";", "v", "a", "l", "o", "r", ";", "d", "a", "t", "a", "LF">>

\* a file of n data rows that all pass validation
BulkFile(n) ==
    LET line == <<"a", ";", "1", "LF">>
    IN  [k \in 1..(Len(HeaderLine) + n * Len(line)) |->
           IF k <= Len(HeaderLine) THEN HeaderLine[k]
           ELSE line[((k - Len(HeaderLine) - 1) % Len(line)) + 1]]

CsvFiles == {"header_only", "no_values", "invalid", "n50", "n120", "n501"}

\* e.target.result of the FileReader, by file
FileContent(f) ==
    CASE f = "header_only" -> HeaderLine \o <<"LF", " ", "LF">>
      [] f = "no_values"   -> HeaderLine \o <<";", ";", "LF">>
      [] f = "invalid"     -> HeaderLine \o <<"a", ";", "1", ";", "0", "5", "/", "0", "1", "/", "2", "0", "2", "4", "LF", "b", ";", "0", ";", "0", "5", "/", "0", "1", "/", "1", "9", "8", "0", "LF", "<", ">", ";", "2", ";", "2", "0", "2", "4", "-", "0", "1", "-", "0", "5", "LF">>
      [] f = "n50"         -> BulkFile(batchSize)
      [] f = "n120"        -> BulkFile(2 * batchSize + 20)
      [] f = "n501"        -> BulkFile(MAX_IMPORT_BATCH_SIZE + 1)

\* e.target.result for a file of the list, and for any other file the
\* content under test
DroppedContent(f) == IF f \in CsvFiles THEN FileContent(f) ELSE probe.input

\* useProfiles().selectedProfile and useAuth().user: a signed-in user with a
\* profile selected
selectedProfile == "p1"
user == "u1"

\* ImportCSVDialog.tsx 44-49, with the file readers that have not fired yet
\* and the runs of importMutation
InitialDialog ==
    [ step             |-> "upload",
      parsedData       |-> <<>>,
      validationErrors |-> <<>>,
      progress         |-> 0,
      importedCount    |-> 0,
      error            |-> Null,
      source           |-> Null,   \* the file parsedData was read from
      reading          |-> {},     \* files handed to a FileReader
      dropped          |-> {},     \* files dropped so far
      runs             |-> <<>> ]

\* how many files are added to the upload list and how many times the
\* processing is started
MaxLocalFiles == 3
MaxHookRuns == 2

\* file.name of the files the user picks
FileNames == {"a.pdf", "b.pdf"}

IdleHookRun ==
    [ pc |-> "idle", files |-> {}, pendingFiles |-> <<>>, i |-> 0,
      status |-> 0, successCount |-> 0, failCount |-> 0 ]

\* useFileUpload.ts 24-27: the props and the state of the hook, with the ids
\* given so far, the runs started so far and the run of handleProcessWithAI
InitialHook(profileId, userId) ==
    [ profileId     |-> profileId,
      userId        |-> userId,
      uploadedFiles |-> <<>>,
      isProcessing  |-> FALSE,
      ids           |-> 0,
      runs          |-> 0,
      run           |-> IdleHookRun ]

NoProbe == [ op |-> "none", input |-> <<>>, result |-> <<>>, done |-> TRUE ]

---------------------------------------------------------------------------
(* State *)

IdleInvocation ==
    [ pc        |-> "idle",
      user      |-> Null,    \* authenticatedUserId
      fileId    |-> Null,    \* fileId of the request body, once read
      profileId |-> Null,    \* profileId of the request body, once read
      rows      |-> <<>>,    \* transactionsToInsert
      gateway   |-> 0,       \* aiResponse.status, when it is no success
      answer    |-> "none",  \* what the model's answer parsed to, once read
      exit      |-> "none",  \* the return statement the invocation left by
      resp      |-> NoResponse ]

\* uploaded_files rows as the upload hook creates them (useFileUpload.ts 74-86)
InitTables ==
    /\ files = [f \in ExistingFiles |->
                  [ user_id         |-> FileOwner[f],
                    status          |-> "pending",
                    processed_count |-> 0,
                    error_message   |-> Null ]]
    /\ ledger = {}
    /\ inv = [i \in Invocations |-> IdleInvocation]
    /\ dialog = InitialDialog

InitStore ==
    /\ InitTables
    /\ hook = InitialHook(selectedProfile, user)

Init ==
    /\ InitStore
    /\ probe = NoProbe

\* supabase.from("uploaded_files").update(patch).eq("id", fileId):
\* changes the row with that id if there is one
UpdateFile(fileId, status, count, message) ==
    IF fileId \in DOMAIN files
    THEN [files EXCEPT ![fileId] =
            [@ EXCEPT !.status = status,
                      !.processed_count = count,
                      !.error_message = message]]
    ELSE files

\* update({ status: "failed", error_message })
MarkFailed(fileId, message) ==
    IF fileId \in DOMAIN files
    THEN UpdateFile(fileId, "failed", files[fileId].processed_count, message)
    ELSE files

\* update({ status: "processing" })
MarkProcessing(fileId) ==
    IF fileId \in DOMAIN files
    THEN UpdateFile(fileId, "processing", files[fileId].processed_count,
                    files[fileId].error_message)
    ELSE files

\* MarkCompleted as it would be if it left processed_count alone
MarkCompleted_keepsCount(fileId, count) ==
    UpdateFile(fileId, "completed", files[fileId].processed_count, Null)

\* update({ status: "completed", processed_count, error_message: null })
MarkCompleted(fileId, count) == UpdateFile(fileId, "completed", count, Null)

\* The invocation returns response r by the return statement named exit.
\* Of its locals the record keeps who called, for which file and, when the
\* profile was refused, for which profile.
ReturnAfter(i, exit, r, gateway) ==
    inv' = [inv EXCEPT ![i] =
              [ IdleInvocation EXCEPT
                  !.pc = "done", !.exit = exit, !.resp = r,
                  !.user = inv[i].user, !.fileId = inv[i].fileId,
                  !.gateway = gateway,
                  !.profileId = IF exit \in {"profile_not_found", "profile_forbidden"}
                                THEN inv[i].profileId ELSE Null ]]

Return(i, exit, r) == ReturnAfter(i, exit, r, 0)

\* the invocation returns after it has read the model's answer
ReturnAnswered(i, exit, r, answer) ==
    inv' = [inv EXCEPT ![i] =
              [ IdleInvocation EXCEPT
                  !.pc = "done", !.exit = exit, !.resp = r,
                  !.user = inv[i].user, !.fileId = inv[i].fileId,
                  !.answer = answer ]]

Goto(i, pc) == inv' = [inv EXCEPT ![i].pc = pc]

\* index.ts 387-409, the catch block.  req.clone() throws once the body has
\* been read (bodyUsed); the inner try swallows that and nothing is written.
\* With the body unread, the block reads fileId from it and marks that file
\* failed, whoever owns it.
CatchBlock(i, bodyUsed, body) ==
    /\ files' = IF ~bodyUsed /\ body.json /\ body.fileId # Null
                THEN MarkFailed(body.fileId, ERROR_MESSAGES.PROCESSING_FAILED)
                ELSE files
    /\ Return(i, "catch", ErrorResponse(500, ERROR_MESSAGES.PROCESSING_FAILED))

---------------------------------------------------------------------------
(* The serve handler, index.ts 30-411 *)

\* index.ts 30-33: a request arrives; an OPTIONS request is answered at once
Start(i) ==
    /\ inv[i].pc = "idle"
    /\ UNCHANGED <<dialog, probe, hook>>
    /\ IF i = 1 THEN TRUE ELSE inv[i - 1].pc # "idle"
    /\ \/ Goto(i, "auth")
       \/ Return(i, "preflight", PreflightResponse)
    /\ UNCHANGED <<files, ledger>>

\* index.ts 36-84: the bearer credential, getClaims, the gateway key
Authenticate(i) ==
    /\ inv[i].pc = "auth"
    /\ UNCHANGED <<dialog, probe, hook>>
    /\ UNCHANGED ledger
    /\ \E cred \in Credentials :
         \/ /\ cred \in {"none", "invalid"}
            /\ Return(i, "unauthorized", ErrorResponse(401, ERROR_MESSAGES.UNAUTHORIZED))
            /\ UNCHANGED files
         \/ /\ cred = "throws"
            /\ \E body \in RequestBodies : CatchBlock(i, FALSE, body)
         \/ /\ cred \in Callers
            /\ UNCHANGED files
            /\ \/ inv' = [inv EXCEPT ![i].pc = "body", ![i].user = cred]
               \/ inv' = [inv EXCEPT ![i].pc = "done", ![i].user = cred,
                                     ![i].exit = "no_api_key",
                                     ![i].resp = ErrorResponse(500,
                                         ERROR_MESSAGES.PROCESSING_FAILED)]

\* index.ts 86-96: req.json() and the two required ids
ReadBody(i) ==
    /\ inv[i].pc = "body"
    /\ UNCHANGED <<dialog, probe, hook>>
    /\ UNCHANGED ledger
    /\ \E body \in RequestBodies :
         \/ /\ ~body.json
            /\ CatchBlock(i, TRUE, body)
         \/ /\ body.json
            /\ body.fileId = Null \/ body.profileId = Null
            /\ Return(i, "invalid_request",
                      ErrorResponse(400, ERROR_MESSAGES.INVALID_REQUEST))
            /\ UNCHANGED files
         \/ /\ body.json
            /\ body.fileId # Null /\ body.profileId # Null
            /\ inv' = [inv EXCEPT ![i].pc = "file", ![i].fileId = body.fileId,
                                  ![i].profileId = body.profileId]
            /\ UNCHANGED files

\* index.ts 106-121: the answer to the lookup of the file row
FileCheck(fileId, userId) ==
    IF fileId \notin DOMAIN files
    THEN ErrorResponse(404, ERROR_MESSAGES.NOT_FOUND)
    ELSE IF files[fileId].user_id # userId
    THEN ErrorResponse(403, ERROR_MESSAGES.FORBIDDEN)
    ELSE NoResponse

\* index.ts 98-121
LoadFile(i) ==
    /\ inv[i].pc = "file"
    /\ UNCHANGED <<dialog, probe, hook>>
    /\ UNCHANGED <<files, ledger>>
    /\ LET r == FileCheck(inv[i].fileId, inv[i].user)
       IN  IF r # NoResponse
           THEN Return(i, IF r.status = 404 THEN "file_not_found" ELSE "file_forbidden", r)
           ELSE Goto(i, "profile")

\* index.ts 130-144: the answer to the lookup of the profile row
ProfileCheck(profileId, userId) ==
    IF profileId \notin ExistingProfiles
    THEN ErrorResponse(404, ERROR_MESSAGES.NOT_FOUND)
    ELSE IF ProfileOwner[profileId] # userId
    THEN ErrorResponse(403, ERROR_MESSAGES.FORBIDDEN)
    ELSE NoResponse

\* index.ts 123-147
LoadProfile(i) ==
    /\ inv[i].pc = "profile"
    /\ UNCHANGED <<dialog, probe, hook>>
    /\ UNCHANGED <<files, ledger>>
    /\ LET r == ProfileCheck(inv[i].profileId, inv[i].user)
       IN  IF r # NoResponse
           THEN Return(i, IF r.status = 404 THEN "profile_not_found"
                                            ELSE "profile_forbidden", r)
           ELSE Goto(i, "processing")

\* index.ts 149-153
SetProcessing(i) ==
    /\ inv[i].pc = "processing"
    /\ UNCHANGED <<dialog, probe, hook>>
    /\ files' = MarkProcessing(inv[i].fileId)
    /\ Goto(i, "download")
    /\ UNCHANGED ledger

\* a handled failure: update({ status: "failed", error_message }) and return
Fail(i, exit, r) ==
    /\ files' = MarkFailed(inv[i].fileId, r.error)
    /\ Return(i, exit, r)

\* index.ts 155-227: download, arrayBuffer, btoa(String.fromCharCode(...bytes)).
\* The spread throws a RangeError when the file has more bytes than a call
\* takes arguments.
Download(i) ==
    /\ inv[i].pc = "download"
    /\ UNCHANGED <<dialog, probe, hook>>
    /\ UNCHANGED ledger
    /\ \/ Fail(i, "download_failed", ErrorResponse(500, ERROR_MESSAGES.PROCESSING_FAILED))
       \/ CatchBlock(i, TRUE, NoBody)
       \/ Goto(i, "ai") /\ UNCHANGED files

\* a handled gateway failure: the status is kept with the response
FailGateway(i, status, r) ==
    /\ files' = MarkFailed(inv[i].fileId, r.error)
    /\ ReturnAfter(i, "gateway_error", r, status)

\* index.ts 229-349: the gateway call and the reading of its answer.  fetch
\* rejects when there is no answer, aiResponse.json() when the body of a
\* success answer is no JSON.
CallAI(i) ==
    /\ inv[i].pc = "ai"
    /\ UNCHANGED <<dialog, probe, hook>>
    /\ UNCHANGED ledger
    /\ \/ CatchBlock(i, TRUE, NoBody)
       \/ \E status \in GatewayErrorStatuses :
            FailGateway(i, status, GatewayFailure(status))
       \/ Fail(i, "no_content", ErrorResponse(500, ERROR_MESSAGES.PROCESSING_FAILED))
       \/ \E aiContent \in AIContents :
            LET c == cleanedContent(aiContent)
                failure == ErrorResponse(500, ERROR_MESSAGES.PROCESSING_FAILED)
            IN  IF ~JsonParses(c)
                THEN /\ files' = MarkFailed(inv[i].fileId, failure.error)
                     /\ ReturnAnswered(i, "parse_failed", failure, AnswerKind(c))
                ELSE IF ReadThrows(c)
                THEN /\ files' = files      \* the catch block, body read
                     /\ ReturnAnswered(i, "catch", failure, AnswerKind(c))
                ELSE IF ~HasTransactionsArray(c)
                THEN /\ files' = MarkFailed(inv[i].fileId, failure.error)
                     /\ ReturnAnswered(i, "bad_structure", failure, AnswerKind(c))
                ELSE \E claimed \in ClaimedUserIds :
                       LET rows == transactionsToInsert(c[1].value, inv[i].profileId,
                                                        inv[i].user, claimed)
                       IN  /\ inv' = [inv EXCEPT
                                        ![i].pc = IF Len(rows) > 0 THEN "insert"
                                                                   ELSE "complete",
                                        ![i].rows = rows,
                                        ![i].answer = AnswerKind(c)]
                           /\ UNCHANGED files

\* the rows one insert call adds to the transactions table; the table gives
\* every row an id of its own
InsertedRows(i, rows) ==
    { [ source |-> "extraction", call |-> i, index |-> k,
        file |-> inv[i].fileId, row |-> rows[k] ] : k \in DOMAIN rows }

\* Insert as it would be if the rows went in one call each and the first
\* call had gone through when a later one fails
Insert_rowByRow(i) ==
    /\ inv[i].pc = "insert"
    /\ UNCHANGED <<dialog, probe, hook>>
    /\ \/ /\ ledger' = ledger \cup InsertedRows(i, inv[i].rows)
          /\ Goto(i, "complete")
          /\ UNCHANGED files
       \/ /\ Fail(i, "insert_failed", ErrorResponse(500, ERROR_MESSAGES.PROCESSING_FAILED))
          /\ UNCHANGED ledger
       \/ /\ Len(inv[i].rows) > 1
          /\ Fail(i, "insert_failed", ErrorResponse(500, ERROR_MESSAGES.PROCESSING_FAILED))
          /\ ledger' = ledger \cup InsertedRows(i, SubSeq(inv[i].rows, 1, 1))

\* index.ts 351-367: one insert call with all the rows; it adds all or none
Insert(i) ==
    /\ inv[i].pc = "insert"
    /\ UNCHANGED <<dialog, probe, hook>>
    /\ \/ /\ ledger' = ledger \cup InsertedRows(i, inv[i].rows)
          /\ Goto(i, "complete")
          /\ UNCHANGED files
       \/ /\ Fail(i, "insert_failed", ErrorResponse(500, ERROR_MESSAGES.PROCESSING_FAILED))
          /\ UNCHANGED ledger

\* index.ts 369-385
Complete(i) ==
    /\ inv[i].pc = "complete"
    /\ UNCHANGED <<dialog, probe, hook>>
    /\ files' = MarkCompleted(inv[i].fileId, Len(inv[i].rows))
    /\ Return(i, "completed", SuccessResponse(Len(inv[i].rows)))
    /\ UNCHANGED ledger

Next ==
    \E i \in Invocations :
        \/ Start(i)
        \/ Authenticate(i)
        \/ ReadBody(i)
        \/ LoadFile(i)
        \/ LoadProfile(i)
        \/ SetProcessing(i)
        \/ Download(i)
        \/ CallAI(i)
        \/ Insert(i)
        \/ Complete(i)

Spec == Init /\ [][Next]_vars

---------------------------------------------------------------------------
(* components/settings/ImportCSVDialog.tsx: the dialog.  A handler of the  *)
(* dialog runs to its end or to its next await in one step; the FileReader *)
(* of a dropped file fires later, and the awaited insert of a run returns  *)
(* later, so other handlers run in between.                                *)

NO_VALID_DATA == "Nenhum dado valido encontrado no arquivo CSV"
TOO_MANY_ROWS == "O arquivo contem mais linhas que o maximo permitido por importacao"
READ_FAILED == "Erro ao ler o arquivo"
NO_PROFILE == "Selecione um perfil antes de importar"
HAS_ERRORS == "Existem erro(s) de validacao. Corrija-os antes de importar."
NOTHING_VALID == "Nenhuma transacao valida para importar"
SAVE_FAILED == "Erro ao salvar transacoes. Tente novamente."

\* ImportCSVDialog.tsx 55-62
resetState ==
    [ dialog EXCEPT
        !.step = "upload", !.parsedData = <<>>, !.validationErrors = <<>>,
        !.progress = 0, !.importedCount = 0, !.error = Null, !.source = Null ]

\* ImportCSVDialog.tsx 64-67, the Dialog's onOpenChange and the buttons
\* Cancelar and Fechar
handleClose ==
    /\ dialog' = resetState
    /\ UNCHANGED <<files, ledger, inv, probe, hook>>

\* ImportCSVDialog.tsx 69-76 and 106: a file is dropped on the dropzone of
\* the upload step and handed to a FileReader
onDrop(f) ==
    /\ dialog.step = "upload"
    /\ Cardinality(dialog.dropped) < MaxDrops
    /\ f \notin dialog.dropped
    /\ dialog' = [ dialog EXCEPT
                     !.error = Null, !.validationErrors = <<>>,
                     !.reading = @ \cup {f}, !.dropped = @ \cup {f} ]
    /\ UNCHANGED <<files, ledger, inv, probe, hook>>

\* ImportCSVDialog.tsx 103-105: reader.onerror
ReaderError(f) ==
    /\ f \in dialog.reading
    /\ dialog' = [ dialog EXCEPT !.error = READ_FAILED, !.reading = @ \ {f} ]
    /\ UNCHANGED <<files, ledger, inv, probe, hook>>

\* ExceedsLimit as it would be without the ceiling
ExceedsLimit_noCeiling(parsed) == FALSE

\* ImportCSVDialog.tsx 88: parsed.length > MAX_IMPORT_BATCH_SIZE
ExceedsLimit(parsed) == Len(parsed) > MAX_IMPORT_BATCH_SIZE

\* ImportCSVDialog.tsx 77-102: reader.onload
ReaderLoad(f) ==
    /\ f \in dialog.reading
    /\ LET parsed == parseCSV(DroppedContent(f))
           read   == [ dialog EXCEPT !.reading = @ \ {f} ]
       IN  dialog' =
             IF parsed.error # Null THEN [ read EXCEPT !.error = parsed.error ]
             ELSE IF Len(parsed.rows) = 0 THEN [ read EXCEPT !.error = NO_VALID_DATA ]
             ELSE IF ExceedsLimit(parsed.rows) THEN [ read EXCEPT !.error = TOO_MANY_ROWS ]
             ELSE [ read EXCEPT
                      !.validationErrors = validateTransactions(parsed.rows).errors,
                      !.parsedData = parsed.rows,
                      !.source = f,
                      !.step = "preview" ]
    /\ UNCHANGED <<files, ledger, inv, probe, hook>>

\* ImportCSVDialog.tsx 362: the button Voltar
Back ==
    /\ dialog.step = "preview"
    /\ dialog' = [ dialog EXCEPT !.step = "upload", !.validationErrors = <<>> ]
    /\ UNCHANGED <<files, ledger, inv, probe, hook>>

\* ImportCSVDialog.tsx 367: disabled of the button Importar
ImportDisabled ==
    \/ selectedProfile = Null
    \/ Len(dialog.parsedData) = 0
    \/ Len(dialog.validationErrors) > 0

\* a run of importMutation that has ended
EndedRun(run, outcome) ==
    [ run EXCEPT !.pc = "done", !.outcome = outcome, !.transactions = <<>> ]

NewRun ==
    [ pc |-> "insert", transactions |-> <<>>, i |-> 0, imported |-> 0,
      calls |-> 0, outcome |-> "running", file |-> dialog.source ]

\* ImportCSVDialog.tsx 167-170: onError
onError(d, message) == [ d EXCEPT !.error = message, !.step = "preview" ]

\* PassesValidation as it would be if the run went on with the valid rows
\* whatever the validator reported
PassesValidation_always(validationResult) == TRUE

\* ImportCSVDialog.tsx 127: the run goes on to the inserts
PassesValidation(validationResult) == validationResult.valid

\* ImportCSVDialog.tsx 173-175 and 119-138: the button Importar starts a run
\* of importMutation, which runs up to its first insert
handleImport ==
    /\ dialog.step = "preview"
    /\ ~ImportDisabled
    /\ Len(dialog.runs) < MaxRuns
    /\ LET validationResult == validateTransactions(dialog.parsedData)
           transactions     == validationResult.validTransactions
           failed(message)  ==
               onError([ dialog EXCEPT !.runs = Append(@, EndedRun(NewRun, "error")) ],
                       message)
       IN  dialog' =
             IF selectedProfile = Null \/ user = Null THEN failed(NO_PROFILE)
             ELSE IF ~PassesValidation(validationResult) THEN failed(HAS_ERRORS)
             ELSE IF Len(transactions) = 0 THEN failed(NOTHING_VALID)
             ELSE [ dialog EXCEPT
                      !.step = "importing",
                      !.runs = Append(@, [ NewRun EXCEPT !.transactions = transactions ]) ]
    /\ UNCHANGED <<files, ledger, inv, probe, hook>>

Min(a, b) == IF a < b THEN a ELSE b

\* Percent as it would be with Math.floor
Percent_floor(a, b) == (100 * a) \div b

\* Math.round(a / b * 100) for a >= 0 and b > 0
Percent(a, b) == (200 * a + b) \div (2 * b)

\* ImportCSVDialog.tsx 143-147: the batch of run r that starts after row i
Batch(run) ==
    LET slice == SubSeq(run.transactions, run.i + 1,
                        Min(run.i + batchSize, Len(run.transactions)))
    IN  [k \in DOMAIN slice |->
           [ source |-> "csv", call |-> 0, index |-> run.i + k,
             file |-> run.file,
             row |-> [ description      |-> slice[k].description,
                       amount           |-> slice[k].amount,
                       type             |-> slice[k].type,
                       payment_method   |-> slice[k].payment_method,
                       payment_source   |-> slice[k].payment_source,
                       transaction_date |-> slice[k].transaction_date,
                       notes            |-> slice[k].notes,
                       profile_id       |-> selectedProfile,
                       user_id          |-> user ] ]]

\* FailedRun as it would be if the run tried the chunk again
FailedRun_retries(run) == run

\* ImportCSVDialog.tsx 151: the insert reported an error and the run throws
FailedRun(run) == EndedRun(run, "error")

\* ImportCSVDialog.tsx 142-170: the awaited insert of run r returns; the
\* run goes on to its next insert, or ends with onSuccess or onError
InsertBatch(r) ==
    /\ r \in DOMAIN dialog.runs
    /\ dialog.runs[r].pc = "insert"
    /\ LET run      == dialog.runs[r]
           batch    == Batch(run)
           imported == run.imported + Len(batch)
           total    == Len(run.transactions)
           called   == [ run EXCEPT !.calls = @ + 1 ]
       IN  \/ /\ ledger' = ledger \cup
                             { [ batch[k] EXCEPT !.call = r ] : k \in DOMAIN batch }
              /\ LET counted == [ dialog EXCEPT
                                    !.importedCount = imported,
                                    !.progress = Percent(imported, total) ]
                     next    == [ called EXCEPT !.imported = imported,
                                                !.i = @ + batchSize ]
                 IN  dialog' =
                       IF next.i < total
                       THEN [ counted EXCEPT !.runs[r] = next ]
                       ELSE [ counted EXCEPT !.runs[r] = EndedRun(next, "success"),
                                             !.step = "complete" ]
           \/ /\ ledger' = ledger
              /\ dialog' = onError([ dialog EXCEPT !.runs[r] = FailedRun(called) ],
                                   SAVE_FAILED)
    /\ UNCHANGED <<files, inv, probe, hook>>

NextImport ==
    \/ \E f \in CsvFiles : onDrop(f) \/ ReaderError(f) \/ ReaderLoad(f)
    \/ Back
    \/ handleImport
    \/ handleClose
    \/ \E r \in 1..MaxRuns : InsertBatch(r)

SpecImport == Init /\ [][NextImport]_vars

---------------------------------------------------------------------------
(* hooks/useFileUpload.ts: the upload hook.  handleProcessWithAI runs to   *)
(* its next await in one step; the awaited upload, insert, session, fetch  *)
(* and body return later, so the user adds and removes files in between.   *)

UPLOAD_FAILED == "Erro ao fazer upload do arquivo"
RECORD_FAILED == "Erro ao registrar arquivo"
FILE_MISSING == "Arquivo nao encontrado"
SESSION_EXPIRED == "Sessao expirada. Faca login novamente."
RATE_LIMITED == "Limite de requisicoes excedido. Tente novamente mais tarde."
NO_CREDITS == "Creditos de IA insuficientes."
REQUEST_FAILED == "Failed to process file"

\* the statuses of the answers of the function: success, and the failures
\* the hook tells apart
ResponseStatuses == {200, 429, 402, 500}

\* useFileUpload.ts 29-33: updateFileStatus(id, updates), a file that is no
\* longer in the list is left out
updateFileStatus(h, id, status, errorMessage) ==
    [ h EXCEPT !.uploadedFiles =
        [k \in DOMAIN h.uploadedFiles |->
           IF h.uploadedFiles[k].id = id
           THEN [ h.uploadedFiles[k] EXCEPT !.status = status,
                                            !.errorMessage = errorMessage ]
           ELSE h.uploadedFiles[k]] ]

\* useFileUpload.ts 35-48: handleFilesUploaded
handleFilesUploaded(names) ==
    /\ hook.ids + Len(names) <= MaxLocalFiles
    /\ hook' = [ hook EXCEPT
                   !.uploadedFiles = @ \o
                       [k \in DOMAIN names |->
                          [ id |-> hook.ids + k, name |-> names[k],
                            status |-> "pending", errorMessage |-> Null ]],
                   !.ids = @ + Len(names) ]
    /\ UNCHANGED <<files, ledger, inv, dialog, probe>>

\* useFileUpload.ts 50-52: handleRemoveFile
handleRemoveFile(id) ==
    /\ \E k \in DOMAIN hook.uploadedFiles : hook.uploadedFiles[k].id = id
    /\ hook' = [ hook EXCEPT
                   !.uploadedFiles = SelectSeq(@, LAMBDA f : f.id # id) ]
    /\ UNCHANGED <<files, ledger, inv, dialog, probe>>

\* useFileUpload.ts 211-223: the loop is over and the run returns
Returned(h) ==
    [ h EXCEPT !.isProcessing = FALSE, !.run.pc = "returned" ]

\* Caught as it would be if the catch block left the file as it is
Caught_silent(h, id, message) == h

\* useFileUpload.ts 159-166: the catch block of processFileWithAI
Caught(h, id, message) == updateFileStatus(h, id, "failed", message)

\* useFileUpload.ts 182-200: the loop from pendingFiles[i] up to its next
\* await, the upload of the first file that has its original, or up to the
\* end of the run
RECURSIVE Loop(_, _)
Loop(h, i) ==
    IF i > Len(h.run.pendingFiles) THEN Returned(h)
    ELSE LET file == h.run.pendingFiles[i]
         IN  IF file.name \notin h.run.files
             THEN Loop([ updateFileStatus(h, file.id, "failed", FILE_MISSING)
                           EXCEPT !.run.failCount = @ + 1 ],
                       i + 1)
             ELSE [ updateFileStatus(h, file.id, "uploading", file.errorMessage)
                      EXCEPT !.run.i = i, !.run.pc = "upload" ]

\* the local id of the file the run is at
Current(h) == h.run.pendingFiles[h.run.i].id

\* useFileUpload.ts 197-199 and 206-208: the file failed, on to the next one
NextAfterFailure(h) ==
    Loop([ h EXCEPT !.run.failCount = @ + 1 ], h.run.i + 1)

\* useFileUpload.ts 169-196: handleProcessWithAI(files) up to its first
\* await.  The button that starts it is disabled while isProcessing.
handleProcessWithAI(names) ==
    /\ hook.run.pc \in {"idle", "returned"}
    /\ hook.runs < MaxHookRuns
    /\ hook' =
         IF hook.profileId = "" \/ hook.userId = ""
         THEN [ hook EXCEPT !.runs = @ + 1,
                            !.run = [ IdleHookRun EXCEPT
                                        !.pc = "returned",
                                        !.pendingFiles =
                                            SelectSeq(hook.uploadedFiles,
                                                      LAMBDA f : f.status = "pending") ] ]
         ELSE Loop([ hook EXCEPT
                       !.isProcessing = TRUE,
                       !.runs = @ + 1,
                       !.run = [ IdleHookRun EXCEPT
                                   !.files = names,
                                   !.pendingFiles =
                                       SelectSeq(hook.uploadedFiles,
                                                 LAMBDA f : f.status = "pending") ] ],
                   1)
    /\ UNCHANGED <<files, ledger, inv, dialog, probe>>

\* useFileUpload.ts 60-71: the upload to the storage returns
UploadReturns ==
    /\ hook.run.pc = "upload"
    /\ \/ hook' = NextAfterFailure(
                     updateFileStatus(hook, Current(hook), "failed", UPLOAD_FAILED))
       \/ hook' = [ hook EXCEPT !.run.pc = "record" ]
    /\ UNCHANGED <<files, ledger, inv, dialog, probe>>

\* useFileUpload.ts 74-106: the insert of the file record returns; with the
\* record, processFileWithAI starts and asks for the session
RecordReturns ==
    /\ hook.run.pc = "record"
    /\ \/ hook' = NextAfterFailure(
                     updateFileStatus(hook, Current(hook), "failed", RECORD_FAILED))
       \/ hook' = [ updateFileStatus(hook, Current(hook), "processing", Null)
                      EXCEPT !.run.pc = "session" ]
    /\ UNCHANGED <<files, ledger, inv, dialog, probe>>

\* useFileUpload.ts 106-125: getSession returns, or rejects
SessionReturns ==
    /\ hook.run.pc = "session"
    /\ \/ hook' = NextAfterFailure(Caught(hook, Current(hook), SESSION_EXPIRED))
       \/ hook' = NextAfterFailure(Caught(hook, Current(hook), REQUEST_FAILED))
       \/ hook' = [ hook EXCEPT !.run.pc = "fetch" ]
    /\ UNCHANGED <<files, ledger, inv, dialog, probe>>

\* useFileUpload.ts 111-128 and 151: fetch returns an answer, or rejects
FetchReturns ==
    /\ hook.run.pc = "fetch"
    /\ \/ hook' = NextAfterFailure(Caught(hook, Current(hook), REQUEST_FAILED))
       \/ \E status \in ResponseStatuses :
            hook' = [ hook EXCEPT !.run.pc = "body", !.run.status = status ]
    /\ UNCHANGED <<files, ledger, inv, dialog, probe>>

\* useFileUpload.ts 127-158: response.json() returns, or rejects
BodyReturns ==
    /\ hook.run.pc = "body"
    /\ LET id     == Current(hook)
           status == hook.run.status
       IN  \/ hook' = NextAfterFailure(Caught(hook, id, REQUEST_FAILED))
           \/ /\ status = 429
              /\ hook' = NextAfterFailure(updateFileStatus(hook, id, "failed", RATE_LIMITED))
           \/ /\ status = 402
              /\ hook' = NextAfterFailure(updateFileStatus(hook, id, "failed", NO_CREDITS))
           \/ /\ status \notin {200, 429, 402}
              /\ hook' = NextAfterFailure(Caught(hook, id, REQUEST_FAILED))
           \/ /\ status = 200
              /\ hook' = Loop([ updateFileStatus(hook, id, "completed", Null)
                                  EXCEPT !.run.successCount = @ + 1 ],
                              hook.run.i + 1)
    /\ UNCHANGED <<files, ledger, inv, dialog, probe>>

\* the lists of files the user adds at once
PickedFiles == UNION { [1..k -> FileNames] : k \in 1..2 }

InitUpload ==
    /\ InitTables
    /\ probe = NoProbe
    /\ \E profileId \in {selectedProfile, ""}, userId \in {user, ""} :
         hook = InitialHook(profileId, userId)

NextUpload ==
    \/ \E names \in PickedFiles : handleFilesUploaded(names)
    \/ \E id \in 1..MaxLocalFiles : handleRemoveFile(id)
    \/ \E names \in SUBSET FileNames : handleProcessWithAI(names)
    \/ UploadReturns
    \/ RecordReturns
    \/ SessionReturns
    \/ FetchReturns
    \/ BodyReturns

SpecUpload == InitUpload /\ [][NextUpload]_vars

---------------------------------------------------------------------------
(* Properties of the upload hook *)

\* the files of the list that were pending when the run started
PendingAtStart ==
    { k \in DOMAIN hook.uploadedFiles :
        \E j \in DOMAIN hook.run.pendingFiles :
            hook.run.pendingFiles[j].id = hook.uploadedFiles[k].id }

\* C29 as stated: when a run of handleProcessWithAI has returned, every file
\* that was pending at its start is completed or failed.
C29_RunSettlesEveryFile_asStated ==
    hook.run.pc = "returned" =>
        \A k \in PendingAtStart :
            hook.uploadedFiles[k].status \in {"completed", "failed"}

\* C29: when a run of handleProcessWithAI that was started with a profile and
\* a user has returned, every file that was pending at its start is completed
\* or failed, whatever failed for each file; the failure of one file does not
\* stop the files after it.
C29_RunSettlesEveryFile ==
    (hook.run.pc = "returned" /\ hook.profileId # "" /\ hook.userId # "") =>
        \A k \in PendingAtStart :
            hook.uploadedFiles[k].status \in {"completed", "failed"}

\* a run has returned with a failed file before a completed one
C29_Witness ==
    /\ hook.run.pc = "returned"
    /\ hook.profileId # "" /\ hook.userId # ""
    /\ \E j \in PendingAtStart : \E k \in PendingAtStart :
         /\ j < k
         /\ hook.uploadedFiles[j].status = "failed"
         /\ hook.uploadedFiles[j].errorMessage = UPLOAD_FAILED
         /\ hook.uploadedFiles[k].status = "completed"

---------------------------------------------------------------------------
(* lib/csv.ts called on its own: the validator *)

\* a text of n characters c
Repeat(c, n) == [k \in 1..n |-> c] \o <<>>

\* a row that passes every check
PlainRow ==
    [ descricao       |-> <<"M", "e", "r", "c", "a", "d", "o">>,
      valor           |-> <<"1", "0", ",", "5", "0">>,
      tipo            |-> <<"D", "e", "s", "p", "e", "s", "a">>,
      forma_pagamento |-> <<"P", "I", "X">>,
      fonte_pagamento |-> <<"N", "u", "b", "a", "n", "k">>,
      data            |-> <<"0", "5", "/", "0", "1", "/", "2", "0", "2", "4">>,
      observacao      |-> <<>> ]

\* descriptions: plain, empty, blank, empty after the sanitizer, empty after
\* the sanitizer run twice, 500 and 501 characters, 501 characters of which
\* the sanitizer keeps 500
Descriptions ==
    { <<"M", "e", "r", "c", "a", "d", "o">>, <<>>, <<" ", " ">>, <<"<", ">">>, <<"o", "NUL", "n", "a", "=">>,
      <<"o", "NUL", "n", "a", "=", "x">>, <<" ", "<", "b", ">", "L", "o", "j", "a", "<", "/", "b", ">", " ">>,
      Repeat("a", MAX_DESCRIPTION_LENGTH), Repeat("a", MAX_DESCRIPTION_LENGTH + 1),
      <<"<">> \o Repeat("a", MAX_DESCRIPTION_LENGTH) }

\* amounts: in range, zero, below the minimum, the minimum, the maximum, above
\* the maximum, not a number, negative, with a currency sign
Values ==
    { <<"1", "0", ",", "5", "0">>, <<"0">>, <<"0", ",", "0", "0", "1">>, <<"0", ",", "0", "1">>, <<"9", "9", "9", ".", "9", "9", "9", ".", "9", "9", "9", ",", "9", "9">>,
      <<"1", ".", "0", "0", "0", ".", "0", "0", "0", ".", "0", "0", "0", ",", "0", "0">>, <<"a", "b", "c">>, <<"-", "5">>, <<"R", "$", " ", "1", ".", "2", "3", "4", ",", "5", "6">> }

\* dates: the two formats, none, before 1990, the last day allowed, the day
\* after, a two-digit year, text, a day that is on no calendar
Dates ==
    { <<"0", "5", "/", "0", "1", "/", "2", "0", "2", "4">>, <<"2", "0", "2", "4", "-", "0", "1", "-", "0", "5">>, <<>>, <<"0", "5", "/", "0", "1", "/", "1", "9", "8", "0">>, <<"3", "1", "/", "1", "2", "/", "2", "0", "2", "6">>,
      <<"0", "1", "/", "0", "1", "/", "2", "0", "2", "7">>, <<"1", "/", "2", "/", "2", "4">>, <<"a", "b", "c">>, <<"2", "0", "2", "4", "-", "1", "3", "-", "4", "5">>, <<"1", "9", "8", "9", "-", "1", "2", "-", "3", "1">> }

Sources == { <<>>, <<"N", "u", "b", "a", "n", "k">>, <<"<", ">">>, Repeat("b", MAX_PAYMENT_SOURCE_LENGTH),
             Repeat("b", MAX_PAYMENT_SOURCE_LENGTH + 1) }

Notes == { <<>>, <<"o", "k">>, <<"o", "NUL", "n", "a", "=">>, Repeat("c", MAX_NOTES_LENGTH + 1) }

\* types: the two labels, in other letter case and with blanks around, none,
\* an unknown one, a name that object literals inherit
Types ==
    { <<"R", "e", "c", "e", "i", "t", "a">>, <<"d", "e", "s", "p", "e", "s", "a">>, <<" ", "R", "E", "C", "E", "I", "T", "A", " ">>, <<>>, <<"x", "y", "z">>, <<"c", "o", "n", "s", "t", "r", "u", "c", "t", "o", "r">>, <<" ", "C", "o", "n", "s", "t", "r", "u", "c", "t", "o", "r">> }

\* payment methods: the labels with and without accents, in other letter
\* case and with blanks around, none, an unknown one, inherited names
Methods ==
    { <<"P", "I", "X">>, <<"B", "o", "l", "e", "t", "o">>, <<" ", "d", "i", "n", "h", "e", "i", "r", "o", " ">>, <<"c", "r", "e", "d", "i", "t", "o">>,
      <<"C", "r", "eacute", "d", "i", "t", "o">>, <<"D", "Eacute", "B", "I", "T", "O">>, <<"d", "e", "b", "i", "t", "o">>,
      <<"T", "r", "a", "n", "s", "f", "e", "r", "e", "n", "c", "i", "a">>,
      <<"T", "R", "A", "N", "S", "F", "E", "R", "Ecirc", "N", "C", "I", "A">>,
      <<>>, <<"c", "h", "e", "q", "u", "e">>, <<"_", "_", "p", "r", "o", "t", "o", "_", "_">>, <<"c", "o", "n", "s", "t", "r", "u", "c", "t", "o", "r">> }

\* rows of a CSV file, as parseCSV hands them on
SampleRows ==
    { [ PlainRow EXCEPT !.descricao = d, !.valor = v, !.data = t ] :
        d \in Descriptions, v \in Values, t \in Dates }
    \cup
    { [ PlainRow EXCEPT !.fonte_pagamento = f, !.observacao = o, !.valor = v ] :
        f \in Sources, o \in Notes, v \in { <<"1", "0", ",", "5", "0">>, <<"0">> } }
    \cup
    { [ PlainRow EXCEPT !.tipo = ty, !.forma_pagamento = m, !.valor = v ] :
        ty \in Types, m \in Methods, v \in { <<"1", "0", ",", "5", "0">>, <<"0">> } }

\* the rows that lists of several rows are made of: a plain row, a row that
\* fails two checks, a row whose description the sanitizer empties, a row
\* with a date out of range
ListRows ==
    { PlainRow,
      [ PlainRow EXCEPT !.valor = <<"0">>, !.data = <<"0", "5", "/", "0", "1", "/", "1", "9", "8", "0">> ],
      [ PlainRow EXCEPT !.descricao = <<"<", ">">> ],
      [ PlainRow EXCEPT !.data = <<"0", "1", "/", "0", "1", "/", "2", "0", "2", "7">> ] }

MaxRows == 3

SeqsUpTo(S, n) == UNION { [1..k -> S] : k \in 0..n }

ValidatorInputs == { <<row>> : row \in SampleRows } \cup SeqsUpTo(ListRows, MaxRows)

InitValidate ==
    /\ InitStore
    /\ probe \in { [ op |-> "validateTransactions", input |-> csvRows,
                    result |-> <<>>, done |-> FALSE ] : csvRows \in ValidatorInputs }

\* a call of validateTransactions
Validate ==
    /\ probe.op = "validateTransactions"
    /\ ~probe.done
    /\ probe' = [ probe EXCEPT !.result = validateTransactions(probe.input),
                               !.done = TRUE ]
    /\ UNCHANGED <<files, ledger, inv, dialog, hook>>

NextValidate == Validate

SpecValidate == InitValidate /\ [][NextValidate]_vars

---------------------------------------------------------------------------
(* Properties of the validator *)

Validated == probe.op = "validateTransactions" /\ probe.done

\* the input positions that some error of the result names
ErrorRows(result) == {result.errors[k].row : k \in DOMAIN result.errors}

\* the input positions that no error of the result names, in input order
RECURSIVE Ascending(_)
Ascending(S) ==
    IF S = {} THEN <<>>
    ELSE LET least == CHOOSE x \in S : \A y \in S : x <= y
         IN  <<least>> \o Ascending(S \ {least})

\* C15: validateTransactions partitions its input: the errors name input
\* positions only, the records of validTransactions are, in input order, the
\* records of exactly the rows that no error names (so every row is counted
\* once, on one side), a row whose description the sanitizer empties is
\* named by an error on the description, and valid is true exactly when
\* there is no error.
C15_ValidatorPartitions ==
    Validated =>
        LET csvRows == probe.input
            result  == probe.result
            passed  == Ascending(DOMAIN csvRows \ ErrorRows(result))
        IN  /\ ErrorRows(result) \subseteq DOMAIN csvRows
            /\ Len(result.validTransactions) = Len(passed)
            /\ Len(result.validTransactions) + Cardinality(ErrorRows(result)) = Len(csvRows)
            /\ \A j \in DOMAIN passed :
                   <<result.validTransactions[j]>>
                       = validateTransactions(<<csvRows[passed[j]]>>).validTransactions
            /\ \A i \in DOMAIN csvRows :
                   sanitizeText(Trim(csvRows[i].descricao)) = <<>> =>
                       \E k \in DOMAIN result.errors :
                           /\ result.errors[k].row = i
                           /\ result.errors[k].field = "description"
            /\ result.valid = (result.errors = <<>>)

\* three rows validated: the first passes, the sanitizer empties the
\* description of the second, the third fails two checks
C15_Witness ==
    /\ Validated
    /\ Len(probe.input) = 3
    /\ probe.input[2].descricao = <<"<", ">">>
    /\ probe.input[3].valor = <<"0">>
    /\ Len(probe.result.validTransactions) = 1
    /\ ErrorRows(probe.result) = {2, 3}
    /\ ~probe.result.valid

\* the amount is within [0.01, 999999999.99]
AmountInBounds(amount) ==
    /\ ~amount.nan
    /\ ~NumLess(amount, Number(FALSE, <<>>, <<"0", "1">>))
    /\ ~NumLess(Number(FALSE, <<"9", "9", "9", "9", "9", "9", "9", "9", "9">>, <<"9", "9">>), amount)

\* the text is YYYY-MM-DD
DateShaped(s) ==
    /\ Len(s) = 10
    /\ \A k \in {1, 2, 3, 4, 6, 7, 9, 10} : s[k] \in Digits
    /\ s[5] = "-" /\ s[8] = "-"

\* the record is within the field bounds
WithinBounds(t) ==
    /\ Len(t.description) >= 1 /\ Len(t.description) <= 500
    /\ AmountInBounds(t.amount)
    /\ t.type \in {"income", "expense"}
    /\ t.payment_method \in {"pix", "boleto", "credito", "debito", "dinheiro", "transferencia"}
    /\ t.payment_source = NullText \/ Len(t.payment_source) <= 100
    /\ t.notes = NullText \/ Len(t.notes) <= 1000
    /\ DateShaped(t.transaction_date)

\* C16: every record of validTransactions is within the field bounds as
\* returned: description of 1 to 500 characters, amount within
\* [0.01, 999999999.99], type income or expense, payment_method one of the
\* six, payment_source null or at most 100 characters, notes null or at most
\* 1000 characters, transaction_date of shape YYYY-MM-DD.
C16_ValidRecordsWithinBounds ==
    Validated =>
        \A j \in DOMAIN probe.result.validTransactions :
            WithinBounds(probe.result.validTransactions[j])

\* the number of field-bounds checks the row fails: description empty,
\* description too long, amount too small, amount too large, source too long,
\* notes too long, date not YYYY-MM-DD
BoundsFailures(row) ==
    LET t == rawTransaction(row)
    IN  { check \in {"description_min", "description_max", "amount_min", "amount_max",
                      "payment_source", "notes", "transaction_date"} :
            CASE check = "description_min" -> Len(t.description) < 1
              [] check = "description_max" -> Len(t.description) > 500
              [] check = "amount_min" -> NumLess(t.amount, Number(FALSE, <<>>, <<"0", "1">>))
              [] check = "amount_max" -> NumLess(Number(FALSE, <<"9", "9", "9", "9", "9", "9", "9", "9", "9">>, <<"9", "9">>), t.amount)
              [] check = "payment_source" -> t.payment_source # NullText /\ Len(t.payment_source) > 100
              [] check = "notes" -> t.notes # NullText /\ Len(t.notes) > 1000
              [] check = "transaction_date" -> ~DateShaped(t.transaction_date) }

\* the year of a date of shape YYYY-MM-DD is before 1990 or after next year
YearOutOfRange(row) ==
    LET date == rawTransaction(row).transaction_date
    IN  /\ DateShaped(date)
        /\ \/ DigitsValue(SubSeq(date, 1, 4)) < 1990
           \/ DigitsValue(SubSeq(date, 1, 4)) > CurrentYear + 1

\* the field an error of a check is tagged with
FieldOf(check) ==
    CASE check \in {"description_min", "description_max"} -> "description"
      [] check \in {"amount_min", "amount_max"} -> "amount"
      [] OTHER -> check

\* C17: every check that a row fails, among the field-bounds checks and the
\* date-range check, yields an error of its own, tagged with the 1-based
\* position of the row and the field: a row that fails several checks gets
\* one error per check, whatever the rows before it did.
C17_OneErrorPerFailedCheck ==
    Validated =>
        \A i \in DOMAIN probe.input :
            LET mine == SelectSeq(probe.result.errors, LAMBDA e : e.row = i)
                of(field) == Len(SelectSeq(mine, LAMBDA e : e.field = field))
            IN  /\ \A check \in BoundsFailures(probe.input[i]) : of(FieldOf(check)) >= 1
                /\ YearOutOfRange(probe.input[i]) =>
                       of("transaction_date") >= 1
                /\ Len(mine) >= Cardinality(BoundsFailures(probe.input[i]))
                                 + (IF YearOutOfRange(probe.input[i]) THEN 1 ELSE 0)


\* the number of days of the month
DaysInMonth(year, month) ==
    IF month \in {4, 6, 9, 11} THEN 30
    ELSE IF month # 2 THEN 31
    ELSE IF year % 4 = 0 /\ (year % 100 # 0 \/ year % 400 = 0) THEN 29
    ELSE 28

\* the text is a calendar date YYYY-MM-DD from 1990-01-01 to the 31st of
\* December of next year
DateWithinRange(s) ==
    /\ DateShaped(s)
    /\ LET year  == DigitsValue(SubSeq(s, 1, 4))
           month == DigitsValue(SubSeq(s, 6, 7))
           day   == DigitsValue(SubSeq(s, 9, 10))
       IN  /\ year >= 1990 /\ year <= CurrentYear + 1
           /\ month >= 1 /\ month <= 12
           /\ day >= 1 /\ day <= DaysInMonth(year, month)

\* C23: every row whose parsed date is no calendar date from 1990-01-01 to
\* the 31st of December of next year is rejected with an error on
\* transaction_date, also when the text has the shape YYYY-MM-DD, and yields
\* no record of validTransactions.
C23_DatesOutsideRangeRejected ==
    Validated =>
        \A i \in DOMAIN probe.input :
            ~DateWithinRange(parseDate(probe.input[i].data)) =>
                /\ \E k \in DOMAIN probe.result.errors :
                       /\ probe.result.errors[k].row = i
                       /\ probe.result.errors[k].field = "transaction_date"
                /\ validateTransactions(<<probe.input[i]>>).validTransactions = <<>>


\* the type and the payment method that the normalization is to give
ExpectedType(tipo) ==
    IF Trim(LowerText(tipo)) = <<"r", "e", "c", "e", "i", "t", "a">> THEN "income" ELSE "expense"

ExpectedMethod(forma) ==
    LET m == Trim(LowerText(forma))
    IN  CASE m = <<"b", "o", "l", "e", "t", "o">> -> "boleto"
          [] m \in { <<"c", "r", "e", "d", "i", "t", "o">>, <<"c", "r", "eacute", "d", "i", "t", "o">> } -> "credito"
          [] m \in { <<"d", "e", "b", "i", "t", "o">>, <<"d", "eacute", "b", "i", "t", "o">> } -> "debito"
          [] m = <<"d", "i", "n", "h", "e", "i", "r", "o">> -> "dinheiro"
          [] m \in { <<"t", "r", "a", "n", "s", "f", "e", "r", "e", "n", "c", "i", "a">>,
                     <<"t", "r", "a", "n", "s", "f", "e", "r", "ecirc", "n", "c", "i", "a">> }
               -> "transferencia"
          [] OTHER -> "pix"

\* C24: the normalization of tipo and forma_pagamento is total: whatever
\* the text, the validator emits no error on type or payment_method, and
\* every valid record has the type and the method of the fixed maps for the
\* lower-cased, trimmed text, expense and pix when the text is in neither.
C24_NormalizationTotal ==
    Validated =>
        LET csvRows == probe.input
            result  == probe.result
            passed  == Ascending(DOMAIN csvRows \ ErrorRows(result))
        IN  /\ \A k \in DOMAIN result.errors :
                   result.errors[k].field \notin {"type", "payment_method"}
            /\ \A j \in DOMAIN result.validTransactions :
                   j \in DOMAIN passed =>
                       /\ result.validTransactions[j].type
                              = ExpectedType(csvRows[passed[j]].tipo)
                       /\ result.validTransactions[j].payment_method
                              = ExpectedMethod(csvRows[passed[j]].forma_pagamento)

---------------------------------------------------------------------------
(* lib/csv.ts called on its own: the sanitizer *)

MaxTextLen == 5

\* the characters the short texts are made of: the letters of an event
\* handler, its equals sign, a control character, a bracket and a blank
TextAlphabet == {"o", "n", "=", "NUL", "<", " "}

\* longer texts: markup, schemes in either case and nested, handlers, control
\* characters inside and around the text (NEL is U+0085)
LongTexts ==
    { <<" ", "<", "b", ">", "L", "o", "j", "a", "<", "/", "b", ">", " ">>, <<"j", "a", "v", "a", "s", "c", "r", "i", "p", "t", ":", "a", "l", "e", "r", "t", "(", "1", ")">>, <<"J", "a", "v", "a", "S", "c", "r", "i", "p", "t", ":", "x">>,
      <<"j", "j", "a", "v", "a", "s", "c", "r", "i", "p", "t", ":", "a", "v", "a", "s", "c", "r", "i", "p", "t", ":", "x">>, <<"j", "a", "v", "a", "<", "s", "c", "r", "i", "p", "t", ":", "x">>, <<"a", " ", "o", "n", "c", "l", "i", "c", "k", "=", "b">>,
      <<"O", "N", "L", "O", "A", "D", "=", "x">>, <<"o", "NUL", "n", "a", "=", "x">>,
      <<"a", "TAB", "b">>, <<"a", "LF", "b", "CR", "c">>, <<"a", "NEL", "b">>,
      <<"ESC", "a", "DEL", "b", "BEL">>, <<"TAB", "a", "NBSP">>, <<"P", "atilde", "o", " ", "d", "e", " ", "A", "ccedil", "uacute", "c", "a", "r">> }

SanitizerInputs == SeqsUpTo(TextAlphabet, MaxTextLen) \cup LongTexts

InitSanitize ==
    /\ InitStore
    /\ probe \in { [ op |-> "sanitizeText", input |-> text,
                    result |-> <<>>, done |-> FALSE ] : text \in SanitizerInputs }

\* a call of sanitizeText
Sanitize ==
    /\ probe.op = "sanitizeText"
    /\ ~probe.done
    /\ probe' = [ probe EXCEPT !.result = sanitizeText(probe.input), !.done = TRUE ]
    /\ UNCHANGED <<files, ledger, inv, dialog, hook>>

NextSanitize == Sanitize

SpecSanitize == InitSanitize /\ [][NextSanitize]_vars

---------------------------------------------------------------------------
(* Properties of the sanitizer *)

\* the C0 and C1 control characters and DEL, by the names the texts use
AllControlChars == ControlChars \cup {"TAB", "LF", "CR", "NEL"}

\* 'javascript:' starts at position i of s, in any letter case
SchemeAt(s, i) ==
    /\ i + 10 <= Len(s)
    /\ LowerText(SubSeq(s, i, i + 10)) = <<"j", "a", "v", "a", "s", "c", "r", "i", "p", "t", ":">>

\* on<word>= starts at position i of s
HandlerAt(s, i) ==
    /\ i + 3 <= Len(s)
    /\ s[i] \in {"o", "O"}
    /\ s[i + 1] \in {"n", "N"}
    /\ \E m \in (i + 3)..Len(s) :
           /\ s[m] = "="
           /\ \A k \in (i + 2)..(m - 1) : IsWordChar(s[k])

\* C18: the text that sanitize returns holds no angle bracket, no
\* 'javascript:' in any letter case, nothing of the form on<word>=, no
\* control character, and neither starts nor ends with whitespace.
C18_SanitizedTextIsClean ==
    (probe.op = "sanitizeText" /\ probe.done) =>
        LET text == probe.result
        IN  /\ \A k \in DOMAIN text : text[k] \notin {"<", ">"}
            /\ \A k \in DOMAIN text : ~SchemeAt(text, k)
            /\ \A k \in DOMAIN text : ~HandlerAt(text, k)
            /\ \A k \in DOMAIN text : text[k] \notin AllControlChars
            /\ text # <<>> => text[1] \notin WhiteSpace /\ text[Len(text)] \notin WhiteSpace

---------------------------------------------------------------------------
(* lib/csv.ts called on its own, and through the dialog: the tokenizer *)

MaxContentLen == 4

\* the characters the short contents are made of
ContentAlphabet == {"a", ";", " ", "CR", "LF"}

\* longer contents: a header alone, with and without a line end, a header and
\* blank lines, a byte order mark alone, a header and one row, a header and
\* rows without values, quoted fields, commas as delimiters
LongContents ==
    { <<"D", "e", "s", "c", "r", "i", "ccedil", "atilde", "o", ";", "V", "a", "l", "o", "r", ";", "D", "a", "t", "a">>, <<"D", "e", "s", "c", "r", "i", "ccedil", "atilde", "o", ";", "V", "a", "l", "o", "r", ";", "D", "a", "t", "a", "CR", "LF">>,
      <<"D", "e", "s", "c", "r", "i", "ccedil", "atilde", "o", ";", "V", "a", "l", "o", "r", ";", "D", "a", "t", "a", "CR", "LF", " ", "CR", "LF", "TAB", "CR", "LF", "CR", "LF">>, <<"BOM">>, <<"BOM", "LF", "LF">>,
      <<"BOM">> \o <<"D", "e", "s", "c", "r", "i", "ccedil", "atilde", "o", ";", "V", "a", "l", "o", "r", ";", "D", "a", "t", "a", "LF", "M", "e", "r", "c", "a", "d", "o", ";", "1", "0", ",", "5", "0", ";", "0", "5", "/", "0", "1", "/", "2", "0", "2", "4", "LF">>,
      <<"n", "o", "m", "e", ";", "v", "a", "l", "o", "r", "LF", ";", ";", "LF">>,
      <<"n", "o", "m", "e", ";", "v", "a", "l", "o", "r", ";", "o", "b", "s", "LF", "QUOTE", "a", ";", "b", "QUOTE", ";", "QUOTE", "1", ",", "5", "QUOTE", ";", "QUOTE", "s", "a", "y", " ", "QUOTE", "QUOTE", "h", "i", "QUOTE", "QUOTE", "QUOTE", "LF">>,
      <<"d", "e", "s", "c", "r", "i", "p", "t", "i", "o", "n", ",", "a", "m", "o", "u", "n", "t", "LF", "L", "o", "j", "a", ",", "1", "2", "LF">>,
      \* a row without ';' under a header with ';', a row with ';' under a
      \* header without
      <<"n", "o", "m", "e", ";", "v", "a", "l", "o", "r", "LF", "a", ",", "1", "LF">>,
      <<"d", "e", "s", "c", "r", "i", "p", "t", "i", "o", "n", ",", "a", "m", "o", "u", "n", "t", "LF", "L", "o", "j", "a", ";", " ", "c", "e", "n", "t", "r", "o", ",", "1", "2", "LF">>,
      \* an opening quote that nothing closes, a quoted field with a line
      \* feed in it
      <<"n", "o", "m", "e", ";", "v", "a", "l", "o", "r", "LF", "QUOTE", "a", ";", "b", "LF">>,
      <<"n", "o", "m", "e", ";", "o", "b", "s", "LF", "QUOTE", "a", "QUOTE", ";", "QUOTE", "x", "LF", "y", "QUOTE", "LF">> }

\* the field in double quotes, every quote of it doubled
RECURSIVE DoubleQuotes(_)
DoubleQuotes(field) ==
    IF field = <<>> THEN <<>>
    ELSE (IF Head(field) = "QUOTE" THEN <<"QUOTE", "QUOTE">> ELSE <<Head(field)>>)
           \o DoubleQuotes(Tail(field))

InQuotes(field) == <<"QUOTE">> \o DoubleQuotes(field) \o <<"QUOTE">>

\* field texts: plain, with the delimiter, with a doubled quote, with a line
\* feed
QuotedFields == { <<"a">>, <<"a", ";", "b">>, <<"s", "a", "y", " ", "QUOTE", "h", "i", "QUOTE">>, <<"x", "LF", "y">> }

\* a file of the columns nome and obs with one record, both fields in quotes
QuotedFile(nome, obs) ==
    <<"n", "o", "m", "e", ";", "o", "b", "s", "LF">> \o InQuotes(nome) \o <<";">> \o InQuotes(obs) \o <<"LF">>

\* a record of the same columns whose second field opens a quote that
\* nothing closes
UnmatchedFile == <<"n", "o", "m", "e", ";", "o", "b", "s", "LF", "a", ";", "QUOTE", "b", ";", "c", "LF">>

ParserInputs ==
    SeqsUpTo(ContentAlphabet, MaxContentLen) \cup LongContents
    \cup { QuotedFile(nome, obs) : nome \in QuotedFields, obs \in QuotedFields }
    \cup { UnmatchedFile }

\* the file whose content is under test
TestFile == "probe"

InitParse ==
    /\ InitStore
    /\ probe \in { [ op |-> "parseCSV", input |-> csvContent,
                    result |-> <<>>, done |-> FALSE ] : csvContent \in ParserInputs }

\* a call of parseCSV
Parse ==
    /\ probe.op = "parseCSV"
    /\ ~probe.done
    /\ probe' = [ probe EXCEPT !.result = parseCSV(probe.input), !.done = TRUE ]
    /\ UNCHANGED <<files, ledger, inv, dialog, hook>>

\* parseCSV on its own, and the dialog with the file under test dropped
NextParse ==
    \/ Parse
    \/ onDrop(TestFile)
    \/ ReaderError(TestFile)
    \/ ReaderLoad(TestFile)
    \/ Back

SpecParse == InitParse /\ [][NextParse]_vars

---------------------------------------------------------------------------
(* Properties of the tokenizer *)

\* the file f leaves its FileReader in this step
Read(f) == f \in dialog.reading /\ f \notin dialog'.reading

\* the number of lines of the content that hold something else than
\* whitespace, lines being what line feeds separate: the positions of the
\* first such character of each line
NonBlankLines(content) ==
    Cardinality({ i \in DOMAIN content :
        /\ content[i] \notin WhiteSpace
        /\ \A j \in 1..(i - 1) :
               content[j] \notin WhiteSpace =>
                   \E k \in (j + 1)..(i - 1) : content[k] = "LF" })

\* C19: for a content with fewer than 2 non-blank lines parseCSV reports the
\* empty-file error and no rows, and when the reader of such a file fires
\* the dialog keeps its step (upload), its parsed rows and its validation
\* errors and shows the empty-file error.
C19_EmptyFileReported ==
    [][/\ (probe'.op = "parseCSV" /\ probe'.done /\ NonBlankLines(probe'.input) < 2) =>
             /\ probe'.result.error = EMPTY_FILE
             /\ probe'.result.rows = <<>>
       /\ (probe.op = "parseCSV" /\ NonBlankLines(probe.input) < 2
             /\ Read(TestFile) /\ dialog'.error # READ_FAILED) =>
             /\ dialog.step = "upload"
             /\ dialog'.step = "upload"
             /\ dialog'.parsedData = <<>>
             /\ dialog'.validationErrors = <<>>
             /\ dialog'.error = EMPTY_FILE
             /\ dialog'.source = Null
      ]_vars

\* a header and a blank line were parsed, and dropped on the dialog and read
C19_Witness ==
    /\ probe.op = "parseCSV" /\ probe.done
    /\ probe.input = <<"a", "CR", "LF", " ">>
    /\ probe.result.error = EMPTY_FILE
    /\ TestFile \in dialog.dropped \ dialog.reading
    /\ dialog.error = EMPTY_FILE
    /\ dialog.step = "upload"

---------------------------------------------------------------------------
(* lib/csv.ts called on its own: amounts written and read back *)

MaxDigits == 4

\* integer parts: the digit sequences of up to MaxDigits digits over 0, 1
\* and 9, and larger ones up to and beyond the integer part of MAX_AMOUNT
IntegerParts ==
    SeqsUpTo({"0", "1", "9"}, MaxDigits)
    \cup { <<"1", "2", "3", "4", "5">>, <<"1", "0", "0", "0", "0", "0">>, <<"9", "9", "9", "9", "9", "9">>, <<"1", "0", "0", "0", "0", "0", "0">>, <<"1", "2", "3", "4", "5", "6", "7">>,
           <<"1", "2", "3", "4", "5", "6", "7", "8", "9">>, <<"9", "9", "9", "9", "9", "9", "9", "9", "9">>, <<"1", "0", "0", "0", "0", "0", "0", "0", "0", "0">> }

\* fraction digits: none, one, two, and three (which no amount of two
\* decimal digits has)
Fractions == { <<>>, <<"5">>, <<"0", "5">>, <<"0", "1">>, <<"5", "6">>, <<"9", "9">>, <<"0", "0", "5">>, <<"9", "9", "4">>, <<"9", "9", "9">> }

Amounts ==
    { Number(neg, int, frac) : neg \in BOOLEAN, int \in IntegerParts, frac \in Fractions }

InitCurrency ==
    /\ InitStore
    /\ probe \in { [ op |-> "formatCurrency", input |-> value,
                    result |-> <<>>, done |-> FALSE ] : value \in Amounts }

\* a call of formatCurrency
Format ==
    /\ probe.op = "formatCurrency"
    /\ ~probe.done
    /\ probe.result = <<>>
    /\ probe' = [ probe EXCEPT !.result = << formatCurrency(probe.input) >> ]
    /\ UNCHANGED <<files, ledger, inv, dialog, hook>>

\* a call of parseCurrency on the text that formatCurrency returned
ParseBack ==
    /\ probe.op = "formatCurrency"
    /\ ~probe.done
    /\ Len(probe.result) = 1
    /\ probe' = [ probe EXCEPT !.result = @ \o << parseCurrency(probe.result[1]) >>,
                               !.done = TRUE ]
    /\ UNCHANGED <<files, ledger, inv, dialog, hook>>

NextCurrency == Format \/ ParseBack

SpecCurrency == InitCurrency /\ [][NextCurrency]_vars

---------------------------------------------------------------------------
(* Properties of the amounts *)

\* x is a positive amount of whole cents within [0.01, 999999999.99]
AcceptedAmount(x) ==
    /\ ~x.nan /\ ~x.neg
    /\ x.int # <<>> \/ x.frac # <<>>
    /\ Len(x.frac) <= 2
    /\ Len(x.int) <= 9

\* C20: parseCurrency(formatCurrency(x)) = x for every positive amount x of
\* whole cents in the accepted range, also when formatCurrency writes
\* thousands separators (x >= 1000).
C20_CurrencyRoundTrip ==
    (probe.op = "formatCurrency" /\ probe.done /\ AcceptedAmount(probe.input)) =>
        probe.result[2] = probe.input

\* 1111.56 was written as 1.111,56 and read back
C20_Witness ==
    /\ probe.op = "formatCurrency" /\ probe.done
    /\ probe.input = Number(FALSE, <<"1", "1", "1", "1">>, <<"5", "6">>)
    /\ probe.result[1] = <<"1", ".", "1", "1", "1", ",", "5", "6">>
    /\ probe.result[2] = probe.input
    /\ AcceptedAmount(probe.input)

---------------------------------------------------------------------------
(* lib/csv.ts called on its own: dates parsed and parsed again *)

MaxDateLen == 5

\* the characters the short date texts are made of
DateAlphabet == {"1", "/", "-", "T"}

\* longer date texts: DD/MM/YYYY, with one-digit day and month, ISO, ISO with
\* a time part, DD/MM/YYYY with a time part, other shapes
LongDates ==
    { <<"0", "5", "/", "0", "1", "/", "2", "0", "2", "4">>, <<"5", "/", "1", "/", "2", "0", "2", "4">>, <<"2", "0", "2", "4", "-", "0", "1", "-", "0", "5">>, <<"2", "0", "2", "4", "-", "0", "1", "-", "0", "5", "T", "1", "0", ":", "3", "0", ":", "0", "0", "Z">>,
      <<"0", "5", "/", "0", "1", "/", "2", "0", "2", "4", "T", "1", "0", ":", "3", "0", ":", "0", "0">>, <<"0", "5", "/", "0", "1", "/", "2", "0", "2", "4", " ", "1", "0", ":", "3", "0">>, <<"J", "a", "n", " ", "5", ",", " ", "2", "0", "2", "4">>,
      <<"0", "5", ".", "0", "1", ".", "2", "0", "2", "4">>, <<"2", "0", "2", "4", "/", "0", "1", "/", "0", "5">>, <<"0", "5", "-", "0", "1", "-", "2", "0", "2", "4">> }

DateInputs == SeqsUpTo(DateAlphabet, MaxDateLen) \cup LongDates

InitDate ==
    /\ InitStore
    /\ probe \in { [ op |-> "parseDate", input |-> dateStr,
                    result |-> <<>>, done |-> FALSE ] : dateStr \in DateInputs }

\* a call of parseDate
ParseDate ==
    /\ probe.op = "parseDate"
    /\ ~probe.done
    /\ probe.result = <<>>
    /\ probe' = [ probe EXCEPT !.result = << parseDate(probe.input) >> ]
    /\ UNCHANGED <<files, ledger, inv, dialog, hook>>

\* a call of parseDate on what the first call returned, on the same day
ParseDateAgain ==
    /\ probe.op = "parseDate"
    /\ ~probe.done
    /\ Len(probe.result) = 1
    /\ probe' = [ probe EXCEPT !.result = @ \o << parseDate(probe.result[1]) >>,
                               !.done = TRUE ]
    /\ UNCHANGED <<files, ledger, inv, dialog, hook>>

NextDate == ParseDate \/ ParseDateAgain

SpecDate == InitDate /\ [][NextDate]_vars

---------------------------------------------------------------------------
(* Properties of the dates *)

\* C21: parseDate is idempotent on the same day: for every text s,
\* parseDate(parseDate(s)) = parseDate(s).
C21_ParseDateIdempotent ==
    (probe.op = "parseDate" /\ probe.done) => probe.result[2] = probe.result[1]


\* the delimiter of a parseCSV call: that of the header line
HeaderDelimiter(headerLine) == IF ";" \in Range(headerLine) THEN ";" ELSE ","

\* the rows of the content when every line is split with the delimiter of
\* the header line
RowsByHeaderDelimiter(csvContent) ==
    LET lines      == SelectSeq(SplitLines(csvContent), LAMBDA l : Trim(l) # <<>>)
        headerLine == IF Head(lines[1]) = "BOM" THEN Tail(lines[1]) ELSE lines[1]
        delimiter  == HeaderDelimiter(headerLine)
        fields(l)  == SplitFields(l, delimiter)
        columns    == Columns(fields(headerLine))
        values     == [k \in 1..(Len(lines) - 1) |-> fields(lines[k + 1])]
        kept       == SelectSeq(values, LAMBDA v : \E j \in DOMAIN v : Trim(v[j]) # <<>>)
    IN  [k \in DOMAIN kept |-> RowOf(columns, kept[k])]

\* C25: one parseCSV call uses one delimiter for every line, ';' when the
\* header line holds a ';' and ',' otherwise: the rows are those that
\* splitting every line with the header's delimiter gives, also for a data
\* row without ';' under a header with ';' and for a data row with ';'
\* under a header without.
C25_OneDelimiterPerCall ==
    (probe.op = "parseCSV" /\ probe.done /\ probe.result.error = Null) =>
        probe.result.rows = RowsByHeaderDelimiter(probe.input)


\* C26: a field in double quotes comes back as one field without the quotes:
\* a delimiter or a line feed inside the quotes ends neither the field nor the
\* record, a doubled quote gives one quote, and a quote that nothing closes
\* takes the rest of the line into the field.
C26_QuotedFieldsKept ==
    (probe.op = "parseCSV" /\ probe.done) =>
        /\ \A nome \in QuotedFields, obs \in QuotedFields :
               probe.input = QuotedFile(nome, obs) =>
                   /\ probe.result.error = Null
                   /\ Len(probe.result.rows) = 1
                   /\ probe.result.rows[1].descricao = nome
                   /\ probe.result.rows[1].observacao = obs
        /\ probe.input = UnmatchedFile =>
               /\ probe.result.error = Null
               /\ Len(probe.result.rows) = 1
               /\ probe.result.rows[1].descricao = <<"a">>
               /\ probe.result.rows[1].observacao = <<"b", ";", "c">>

---------------------------------------------------------------------------
(* lib/csv.ts called on its own: the export, and the import of its result *)

\* csv.ts 69-76: PAYMENT_METHOD_LABELS of a payment method of the enumeration
PAYMENT_METHOD_LABELS(method) ==
    CASE method = "pix"           -> <<"P", "I", "X">>
      [] method = "boleto"        -> <<"B", "o", "l", "e", "t", "o">>
      [] method = "credito"       -> <<"C", "r", "eacute", "d", "i", "t", "o">>
      [] method = "debito"        -> <<"D", "eacute", "b", "i", "t", "o">>
      [] method = "dinheiro"      -> <<"D", "i", "n", "h", "e", "i", "r", "o">>
      [] method = "transferencia" -> <<"T", "r", "a", "n", "s", "f", "e", "r", "ecirc", "n", "c", "i", "a">>

\* csv.ts 90-93: TYPE_LABELS of a type of the enumeration
TYPE_LABELS(type) ==
    CASE type = "income"  -> <<"R", "e", "c", "e", "i", "t", "a">>
      [] type = "expense" -> <<"D", "e", "s", "p", "e", "s", "a">>

TwoDigits(n) == << DigitChars[(n \div 10) + 1], DigitChars[(n % 10) + 1] >>

\* csv.ts formatDate: new Date(dateStr + 'T00:00:00').toLocaleDateString('pt-BR')
\* of a text of the shape YYYY-MM-DD.  A day past the end of its month, up to
\* the 31st, is a day of the next month; any other day or month that does not
\* exist gives Invalid Date.
formatDate(dateStr) ==
    LET year  == DigitsValue(SubSeq(dateStr, 1, 4))
        month == DigitsValue(SubSeq(dateStr, 6, 7))
        day   == DigitsValue(SubSeq(dateStr, 9, 10))
    IN  IF ~IsCalendarDate(dateStr) THEN <<"I", "n", "v", "a", "l", "i", "d", " ", "D", "a", "t", "e">>
        ELSE IF day > DaysInMonth(year, month)
        THEN TwoDigits(day - DaysInMonth(year, month)) \o <<"/">>
                 \o TwoDigits(month + 1) \o <<"/">> \o SubSeq(dateStr, 1, 4)
        ELSE TwoDigits(day) \o <<"/">> \o TwoDigits(month) \o <<"/">>
                 \o SubSeq(dateStr, 1, 4)

\* csv.ts escapeCsvField
escapeCsvField(field) ==
    IF \E k \in DOMAIN field : field[k] \in {";", "QUOTE", "LF"}
    THEN <<"QUOTE">> \o DoubleQuotes(field) \o <<"QUOTE">>
    ELSE field

\* Array.prototype.join
RECURSIVE Join(_, _)
Join(parts, separator) ==
    IF parts = <<>> THEN <<>>
    ELSE IF Len(parts) = 1 THEN parts[1]
    ELSE parts[1] \o separator \o Join(Tail(parts), separator)

\* value || '' of a text or null
OrEmpty(value) == IF value = NullText THEN <<>> ELSE value

\* csv.ts 144
ExportHeaders ==
    << <<"D", "e", "s", "c", "r", "i", "ccedil", "atilde", "o">>, <<"V", "a", "l", "o", "r">>, <<"T", "i", "p", "o">>, <<"F", "o", "r", "m", "a", " ", "d", "e", " ", "P", "a", "g", "a", "m", "e", "n", "t", "o">>, <<"F", "o", "n", "t", "e", "/", "C", "a", "r", "t", "atilde", "o">>, <<"D", "a", "t", "a">>, <<"O", "b", "s", "e", "r", "v", "a", "ccedil", "atilde", "o">> >>

\* csv.ts transactionsToCSV
transactionsToCSV(transactions) ==
    LET rows == [k \in DOMAIN transactions |->
                   LET t == transactions[k]
                   IN  << escapeCsvField(t.description),
                          formatCurrency(t.amount),
                          TYPE_LABELS(t.type),
                          PAYMENT_METHOD_LABELS(t.payment_method),
                          escapeCsvField(OrEmpty(t.payment_source)),
                          formatDate(t.transaction_date),
                          escapeCsvField(OrEmpty(t.notes)) >>]
        lines == << Join(ExportHeaders, <<";">>) >>
                     \o [k \in DOMAIN rows |-> Join(rows[k], <<";">>)]
    IN  <<"BOM">> \o Join(lines, <<"LF">>)

\* a transaction of the ledger
BaseTransaction ==
    [ description      |-> <<"M", "e", "r", "c", "a", "d", "o">>,
      amount           |-> Number(FALSE, <<"1", "2", "3", "4">>, <<"5", "6">>),
      type             |-> "expense",
      payment_method   |-> "pix",
      payment_source   |-> NullText,
      transaction_date |-> <<"2", "0", "2", "4", "-", "0", "1", "-", "0", "5">>,
      notes            |-> NullText ]

\* texts that the sanitizer leaves as they are: plain, with a comma, with the
\* delimiter, with quotes, with a line feed
ExportTexts == { <<"L", "o", "j", "a", ",", " ", "c", "e", "n", "t", "r", "o">>, <<"a", ";", "b">>, <<"s", "a", "y", " ", "QUOTE", "h", "i", "QUOTE">>, <<"x", "LF", "y">> }

\* transactions that differ from BaseTransaction in one field
ExportTransactions ==
    { BaseTransaction }
    \cup { [ BaseTransaction EXCEPT !.description = text ] : text \in ExportTexts }
    \cup { [ BaseTransaction EXCEPT !.amount = amount ] :
             amount \in { MIN_AMOUNT, MAX_AMOUNT, Number(FALSE, <<"1">>, <<"9", "9", "4">>) } }
    \cup { [ BaseTransaction EXCEPT !.type = "income" ] }
    \cup { [ BaseTransaction EXCEPT !.payment_method = method ] :
             method \in {"boleto", "credito", "debito", "dinheiro", "transferencia"} }
    \cup { [ BaseTransaction EXCEPT !.payment_source = text ] :
             text \in ExportTexts \cup { <<"N", "u", "b", "a", "n", "k">>, <<>> } }
    \cup { [ BaseTransaction EXCEPT !.transaction_date = date ] :
             date \in { <<"1", "9", "9", "0", "-", "0", "1", "-", "0", "1">>, <<"2", "0", "2", "6", "-", "1", "2", "-", "3", "1">>, <<"2", "0", "2", "4", "-", "0", "2", "-", "2", "9">>, <<"2", "0", "2", "4", "-", "0", "2", "-", "3", "0">> } }
    \cup { [ BaseTransaction EXCEPT !.notes = text ] : text \in ExportTexts }

\* how many transactions are exported at once
MaxExported == 2

ExportInputs == UNION { [1..n -> ExportTransactions] : n \in 0..MaxExported }

InitExport ==
    /\ InitStore
    /\ probe \in { [ op |-> "transactionsToCSV", input |-> transactions,
                    result |-> <<>>, done |-> FALSE ] : transactions \in ExportInputs }

\* a call of transactionsToCSV
Export ==
    /\ probe.op = "transactionsToCSV"
    /\ ~probe.done
    /\ probe.result = <<>>
    /\ probe' = [ probe EXCEPT !.result = << transactionsToCSV(probe.input) >> ]
    /\ UNCHANGED <<files, ledger, inv, dialog, hook>>

\* a call of parseCSV on the text that transactionsToCSV returned
ParseExported ==
    /\ probe.op = "transactionsToCSV"
    /\ ~probe.done
    /\ Len(probe.result) = 1
    /\ probe' = [ probe EXCEPT !.result = @ \o << parseCSV(probe.result[1]) >> ]
    /\ UNCHANGED <<files, ledger, inv, dialog, hook>>

\* a call of validateTransactions on the rows that parseCSV returned
ValidateParsed ==
    /\ probe.op = "transactionsToCSV"
    /\ ~probe.done
    /\ Len(probe.result) = 2
    /\ probe' = [ probe EXCEPT
                    !.result = @ \o << validateTransactions(probe.result[2].rows) >>,
                    !.done = TRUE ]
    /\ UNCHANGED <<files, ledger, inv, dialog, hook>>

NextExport == Export \/ ParseExported \/ ValidateParsed

SpecExport == InitExport /\ [][NextExport]_vars

---------------------------------------------------------------------------
(* Properties of the export *)

\* a text the sanitizer returns as it is
IsSanitized(text) == sanitizeText(text) = text

\* the transaction satisfies the bounds of the schema, its texts are fixed
\* points of the sanitizer, its amount has no more than two decimals, its
\* date is a day of the calendar in the accepted range, and its source and
\* notes are null or not empty
ExportContract(t) ==
    /\ Len(t.description) \in 1..MAX_DESCRIPTION_LENGTH /\ IsSanitized(t.description)
    /\ ~NumLess(t.amount, MIN_AMOUNT) /\ ~NumLess(MAX_AMOUNT, t.amount)
    /\ Len(t.amount.frac) <= 2
    /\ t.payment_source = NullText
         \/ /\ Len(t.payment_source) \in 1..MAX_PAYMENT_SOURCE_LENGTH
            /\ IsSanitized(t.payment_source)
    /\ DateWithinRange(t.transaction_date)
    /\ t.notes = NullText
         \/ /\ Len(t.notes) \in 1..MAX_NOTES_LENGTH
            /\ IsSanitized(t.notes)

\* C30: export followed by import is a round trip: for a list of transactions
\* within the contract, parseCSV of the exported text does not fail,
\* validateTransactions reports no error and returns the same transactions in
\* the same order, also when a text holds the delimiter, quotes or a line feed.
C30_ExportImportRoundTrip ==
    ( /\ probe.op = "transactionsToCSV" /\ probe.done
      /\ Len(probe.input) > 0
      /\ \A k \in DOMAIN probe.input : ExportContract(probe.input[k]) )
    => /\ probe.result[2].error = Null
       /\ probe.result[3].errors = <<>>
       /\ probe.result[3].validTransactions = probe.input

---------------------------------------------------------------------------
(* Properties of the CSV import dialog *)

\* the files whose content yields more than 500 data rows
OversizedFiles ==
    {f \in CsvFiles : parseCSV(FileContent(f)).error = Null
                      /\ Len(parseCSV(FileContent(f)).rows) > 500}

\* the files that some row of the ledger, the rows shown by the dialog or a
\* run of the import came from
FilesInUse ==
    {r.file : r \in {x \in ledger : x.source = "csv"}}
        \cup {dialog.runs[r].file : r \in DOMAIN dialog.runs}
        \cup ({dialog.source} \ {Null})

\* C11: a file that yields more than 500 data rows is rejected outright:
\* when its reader fires the dialog does not leave the step it is on (on the
\* upload step it stays there), shows an error and keeps the rows it had, and
\* in no state is a row of such a file shown by the dialog, part of a run of
\* the import or in the ledger.
C11_OversizedFileRejected ==
    [][/\ \A f \in OversizedFiles :
            Read(f) => /\ dialog'.step = dialog.step
                       /\ dialog'.error # Null
                       /\ dialog'.parsedData = dialog.parsedData
                       /\ dialog'.runs = dialog.runs
                       /\ ledger' = ledger
       /\ FilesInUse' \cap OversizedFiles = {}]_vars

C11_Witness ==
    /\ "n501" \in dialog.dropped \ dialog.reading
    /\ dialog.step = "upload"
    /\ dialog.error = TOO_MANY_ROWS
    /\ dialog.parsedData = <<>>


\* the files whose parsed rows the validator reports at least one error for
FilesWithErrors ==
    {f \in CsvFiles : parseCSV(FileContent(f)).error = Null
                      /\ validateTransactions(parseCSV(FileContent(f)).rows).errors # <<>>}

\* the run has issued an insert, or is waiting for one it issued
IssuedInsert(run) == run.calls > 0 \/ run.pc = "insert"

\* C12: import is blocked while a validation error exists: no run of the
\* import ever issues an insert for a file whose parsed rows the validator
\* reports an error for, and no row of such a file is in the ledger, whatever
\* the user does in the dialog.
C12_BlockedWhileErrors ==
    /\ \A r \in DOMAIN dialog.runs :
           dialog.runs[r].file \in FilesWithErrors => ~IssuedInsert(dialog.runs[r])
    /\ \A row \in ledger :
           row.source = "csv" => row.file \notin FilesWithErrors

\* the user got to press Importar on the rows of the file with errors, and
\* the run stopped before its first insert
C12_Witness ==
    \E r \in DOMAIN dialog.runs :
        /\ dialog.runs[r].file = "invalid"
        /\ dialog.runs[r].pc = "done"
        /\ dialog.runs[r].outcome = "error"
        /\ dialog.runs[r].calls = 0
        /\ dialog.error = HAS_ERRORS

\* the successful return of an insert of run r in this step
Inserted(r) ==
    /\ r \in DOMAIN dialog.runs
    /\ dialog.runs[r].pc = "insert"
    /\ dialog'.runs[r].calls = dialog.runs[r].calls + 1
    /\ dialog'.runs[r].outcome # "error"

\* p is x / n * 100 rounded to the nearest integer, halves upwards
IsRounded(p, x, n) == 2 * p * n <= 200 * x + n /\ 200 * x + n < 2 * (p + 1) * n

\* the ledger rows of run r
RunRows(l, r) == {row \in l : row.source = "csv" /\ row.call = r}

\* C13: in a run of N valid rows the k-th insert that succeeds persists
\* exactly the rows 50(k-1)+1 .. min(50k, N) of the run, in one call, and
\* leaves the imported count at min(50k, N) and the progress at
\* round(imported / N * 100); the count grows with every chunk; the run ends
\* with the chunk that reaches N, at progress 100, after ceil(N / 50) calls,
\* and only then. For 120 rows the chunks are 50, 50, 20 and the progress is
\* 42, 83, 100.
C13_ChunksAndProgress ==
    [][\A r \in DOMAIN dialog.runs :
        Inserted(r) =>
            LET run == dialog.runs[r]
                N == Len(run.transactions)
                k == run.calls + 1
                count == IF 50 * k < N THEN 50 * k ELSE N
            IN  /\ N >= 1 /\ N <= 500
                /\ 50 * (k - 1) < N
                /\ ledger' \ ledger \subseteq RunRows(ledger', r)
                /\ {row.index : row \in ledger' \ ledger} = (50 * (k - 1) + 1)..count
                /\ Cardinality(ledger' \ ledger) = count - 50 * (k - 1)
                /\ \A row \in ledger' \ ledger :
                       /\ [field \in DOMAIN run.transactions[row.index] |-> row.row[field]]
                              = run.transactions[row.index]
                       /\ row.row.profile_id = selectedProfile
                       /\ row.row.user_id = user
                /\ {row.index : row \in RunRows(ledger', r)} = 1..count
                /\ dialog'.runs[r].imported = count
                /\ dialog'.runs[r].imported > run.imported
                /\ dialog'.importedCount = count
                /\ IsRounded(dialog'.progress, count, N)
                /\ (dialog'.runs[r].pc = "done") = (count = N)
                /\ count = N => /\ dialog'.progress = 100
                                /\ dialog'.runs[r].outcome = "success"
                                /\ dialog'.step = "complete"
                /\ count < N => dialog'.runs[r].pc = "insert"
                /\ N = 120 => /\ k \in 1..3
                              /\ k = 1 => Cardinality(ledger' \ ledger) = 50 /\ dialog'.progress = 42
                              /\ k = 2 => Cardinality(ledger' \ ledger) = 50 /\ dialog'.progress = 83
                              /\ k = 3 => Cardinality(ledger' \ ledger) = 20 /\ dialog'.progress = 100
      ]_vars

\* a run of 120 rows has finished with its third insert
C13_Witness ==
    \E r \in DOMAIN dialog.runs :
        /\ dialog.runs[r].file = "n120"
        /\ dialog.runs[r].outcome = "success"
        /\ dialog.runs[r].calls = 3
        /\ Cardinality(RunRows(ledger, r)) = 120
        /\ dialog.progress = 100
        /\ dialog.step = "complete"

\* the insert of run r reports an error in this step
InsertFailed(r) ==
    /\ r \in DOMAIN dialog.runs
    /\ dialog.runs[r].pc = "insert"
    /\ ledger' = ledger
    /\ dialog'.runs[r].calls = dialog.runs[r].calls + 1

\* C14: when the insert of chunk k of a run fails, the run halts at once: the
\* ledger keeps the rows of chunks 1..k-1 and gets nothing else, the run is
\* over with k calls made, the dialog returns to the preview step with the
\* one error of the failure, and a run that is over never makes another call
\* nor adds a row.
C14_FailureHalts ==
    [][\A r \in DOMAIN dialog.runs :
        /\ InsertFailed(r) =>
              LET run == dialog.runs[r]
                  k == run.calls + 1
              IN  /\ {row.index : row \in RunRows(ledger', r)} = 1..(50 * (k - 1))
                  /\ dialog'.runs[r].pc = "done"
                  /\ dialog'.runs[r].outcome = "error"
                  /\ dialog'.runs[r].calls = k
                  /\ dialog'.step = "preview"
                  /\ dialog'.error = SAVE_FAILED
        /\ dialog.runs[r].pc = "done" =>
              /\ r \in DOMAIN dialog'.runs
              /\ dialog'.runs[r] = dialog.runs[r]
              /\ RunRows(ledger', r) = RunRows(ledger, r)
      ]_vars

\* the third insert of a run of 120 rows failed: 100 rows stay
C14_Witness ==
    \E r \in DOMAIN dialog.runs :
        /\ dialog.runs[r].file = "n120"
        /\ dialog.runs[r].outcome = "error"
        /\ dialog.runs[r].calls = 3
        /\ Cardinality(RunRows(ledger, r)) = 100
        /\ dialog.step = "preview"
        /\ dialog.error = SAVE_FAILED


\* C27: in one session of the dialog, whatever the clicks on Importar and
\* also after a run that failed on one of its chunks, no validated row of the
\* file is in the ledger more than once.  Every file is dropped once, so two
\* runs on the same file belong to the same session.
C27_NoRowInsertedTwice ==
    \A a \in ledger : \A b \in ledger :
        (a.source = "csv" /\ b.source = "csv" /\ a.file = b.file /\ a.index = b.index)
            => a.call = b.call


\* the rows of the ledger that were extracted from the file
ExtractedFrom(f) == {row \in ledger : row.source = "extraction" /\ row.file = f}

\* every invocation that has read its request is one of the file's owner on
\* the file
ByOwner(f) ==
    \A i \in Invocations :
        \/ inv[i].pc \in {"idle", "auth", "body"}
        \/ inv[i].user = files[f].user_id /\ inv[i].fileId = f

\* C28: whatever the number of invocations on one file by its owner, one
\* after another or interleaved at their awaits, a file whose status is failed
\* has no extracted transaction in the ledger, and the transactions of one
\* file are inserted at most once.
C28_FailedFileHasNoRows ==
    \A f \in DOMAIN files :
        ByOwner(f) =>
            /\ files[f].status = "failed" => ExtractedFrom(f) = {}
            /\ \A a \in ExtractedFrom(f) : \A b \in ExtractedFrom(f) : a.call = b.call

---------------------------------------------------------------------------
(* Properties of the extraction pipeline *)

\* invocation i leaves the handler in this step
Returns(i) == inv[i].pc # "done" /\ inv'[i].pc = "done"

\* the rows of the transactions table that invocation i inserted
RowsOf(i, table) == {r \in table : r.source = "extraction" /\ r.call = i}

\* The invocation was turned away at authentication (401, or getClaims
\* threw: the catch block with no authenticated user) or at authorization.
Rejected(r) ==
    \/ r.exit = "unauthorized"
    \/ r.exit = "catch" /\ r.user = Null
    \/ r.exit \in {"file_not_found", "file_forbidden",
                   "profile_not_found", "profile_forbidden"}

\* C1: an invocation that fails authentication (no credential, an invalid
\* one, or a credential whose validation throws) or whose caller does not own
\* the file or the profile writes nothing: no file row changes and no
\* transaction is inserted.
C1_RejectedWritesNothing ==
    [][\A i \in Invocations :
         (Returns(i) /\ Rejected(inv'[i])) => (files' = files /\ ledger' = ledger)]_vars

StatusRank(status) ==
    CASE status = "pending"    -> 0
      [] status = "processing" -> 1
      [] status \in {"completed", "failed"} -> 2

\* C2: the status of a file only moves forward along
\* pending -> processing -> {completed, failed}, and a status of completed or
\* failed is never changed by a later invocation.
C2_StatusOnlyMovesForward ==
    [][\A f \in ExistingFiles :
         \/ files'[f].status = files[f].status
         \/ StatusRank(files[f].status) < StatusRank(files'[f].status)]_vars

\* the steps of the handler that follow the update to processing
AfterProcessing == {"download", "ai", "insert", "complete"}

\* C3: an invocation that has moved the file to processing returns with the
\* file completed or failed, whatever step failed or threw.
C3_NeverLeftProcessing ==
    [][\A i \in Invocations :
         (Returns(i) /\ inv[i].pc \in AfterProcessing)
            => files'[inv[i].fileId].status \in {"completed", "failed"}]_vars

\* C4: on a non-success gateway status the file becomes failed and the caller
\* gets 429 with the rate-limit message for 429, 402 with the
\* insufficient-credits message for 402 and 500 with the generic message
\* otherwise; the file's error_message is the message returned, and the
\* invocation inserts no transaction.
C4_GatewayFailureHandled ==
    [][\A i \in Invocations :
         (Returns(i) /\ inv'[i].gateway # 0) =>
            LET r == inv'[i].resp
                f == files'[inv[i].fileId]
            IN  /\ inv'[i].gateway = 429 =>
                     r.status = 429 /\ r.error = ERROR_MESSAGES.RATE_LIMITED
                /\ inv'[i].gateway = 402 =>
                     r.status = 402 /\ r.error = ERROR_MESSAGES.INSUFFICIENT_CREDITS
                /\ inv'[i].gateway \notin {429, 402} =>
                     r.status = 500 /\ r.error = ERROR_MESSAGES.PROCESSING_FAILED
                /\ ~r.success
                /\ f.status = "failed"
                /\ f.error_message = r.error
                /\ ledger' = ledger
                /\ RowsOf(i, ledger') = {}]_vars

C4_Witness ==
    \E i \in Invocations :
        /\ inv[i].pc = "done" /\ inv[i].gateway = 402
        /\ files[inv[i].fileId].status = "failed"
        /\ files[inv[i].fileId].error_message = ERROR_MESSAGES.INSUFFICIENT_CREDITS

\* the caller of a returned invocation named a file that is not theirs: a row
\* of another owner, or no row at all
NamedForeignFile(i) ==
    /\ inv[i].pc = "done" /\ inv[i].user # Null /\ inv[i].fileId # Null
    /\ \/ inv[i].fileId \notin DOMAIN files
       \/ files[inv[i].fileId].user_id # inv[i].user

\* the same for the profile
NamedForeignProfile(i) ==
    /\ inv[i].pc = "done" /\ inv[i].user # Null /\ inv[i].profileId # Null
    /\ \/ inv[i].profileId \notin ExistingProfiles
       \/ ProfileOwner[inv[i].profileId] # inv[i].user

\* C5: to an authenticated caller who names a file that is not theirs the
\* response is the same whether the file belongs to someone else or does not
\* exist; the same holds for the profile.
C5_NoExistenceLeak ==
    \A i, j \in Invocations :
        /\ (NamedForeignFile(i) /\ NamedForeignFile(j) /\ inv[i].user = inv[j].user)
              => inv[i].resp = inv[j].resp
        /\ (NamedForeignProfile(i) /\ NamedForeignProfile(j) /\ inv[i].user = inv[j].user)
              => inv[i].resp = inv[j].resp

\* C6: when the pipeline answers 200 the file is completed with no
\* error_message, and processed_count, the response's transactionsCount and
\* the number of rows the invocation inserted are one number; with an empty
\* transactions array no insert call is made.
C6_SuccessIsCompleted ==
    [][\A i \in Invocations :
         /\ (Returns(i) /\ inv'[i].resp.status = 200 /\ inv'[i].exit # "preflight") =>
               LET f == files'[inv[i].fileId]
                   n == Cardinality(RowsOf(i, ledger'))
               IN  /\ f.status = "completed"
                   /\ f.error_message = Null
                   /\ f.processed_count = n
                   /\ inv'[i].resp.transactionsCount = n
                   /\ inv'[i].resp.success
         /\ inv'[i].pc = "insert" => Len(inv'[i].rows) > 0]_vars

C6_Witness ==
    \E i \in Invocations :
        /\ inv[i].pc = "done" /\ inv[i].exit = "completed"
        /\ inv[i].resp.transactionsCount = 2
        /\ Cardinality(RowsOf(i, ledger)) = 2

\* C7: all the rows of one invocation go in one insert call; when the call
\* fails the file becomes failed with the generic message, the caller gets
\* 500, and none of the invocation's rows is in the ledger.
C7_InsertAllOrNothing ==
    [][\A i \in Invocations :
         (inv[i].pc = "insert" /\ inv'[i].pc # "insert") =>
            \/ /\ inv'[i].pc = "complete"
               /\ Cardinality(RowsOf(i, ledger')) = Len(inv[i].rows)
               /\ {r.row : r \in RowsOf(i, ledger')} = Range(inv[i].rows)
               /\ files' = files
            \/ /\ inv'[i].pc = "done"
               /\ inv'[i].resp = ErrorResponse(500, ERROR_MESSAGES.PROCESSING_FAILED)
               /\ files'[inv[i].fileId].status = "failed"
               /\ files'[inv[i].fileId].error_message = ERROR_MESSAGES.PROCESSING_FAILED
               /\ RowsOf(i, ledger') = {}]_vars

C7_Witness ==
    \E i \in Invocations :
        /\ inv[i].pc = "done" /\ inv[i].exit = "insert_failed"
        /\ files[inv[i].fileId].status = "failed"
        /\ RowsOf(i, ledger) = {}

\* C8: every row the pipeline inserts has the user_id of the identity the
\* credential resolved to and the profile_id of a profile of that identity,
\* whatever the request body holds.
C8_RowsBelongToCaller ==
    \A r \in ledger :
        r.source = "extraction" =>
            /\ inv[r.call].user # Null
            /\ r.row.user_id = inv[r.call].user
            /\ r.row.profile_id \in ExistingProfiles
            /\ ProfileOwner[r.row.profile_id] = inv[r.call].user

C8_Witness ==
    \E r \in ledger : r.source = "extraction" /\ r.row.user_id = "u1"

\* C9: every persisted transaction has an amount greater than 0.
C9_AmountsPositive == \A r \in ledger : r.row.amount > 0

\* the texts a source hands to ingestion, here the texts of the extracted lists
SourceTexts ==
    UNION { UNION { {l[k].description, l[k].payment_source, l[k].notes} \ {NullText} :
                    k \in DOMAIN l } : l \in ExtractedLists }

Sanitized(field) == field = NullText \/ \E t \in SourceTexts : field = sanitizeText(t)

\* C10: every free-text field of every persisted transaction is the
\* sanitizer's output for the text its source supplied.
C10_TextsSanitized ==
    \A r \in ledger :
        /\ Sanitized(r.row.description)
        /\ Sanitized(r.row.payment_source)
        /\ Sanitized(r.row.notes)

\* the model's answer without its code fences
Unfenced(aiContent) == SelectSeq(aiContent, LAMBDA t : t \notin {FenceJson, Fence})

\* the answers that are no JSON or hold no transactions array
AnswersWithoutTransactions ==
    {"not_json", "json_null", "json_no_transactions", "json_transactions_no_array"}

\* C22: an answer of the model in code fences is handled like the same text
\* without them (the handler goes on with the same cleaned text, on which
\* alone the status, the rows and the response depend), and an answer that
\* is no JSON or holds no transactions array leaves the file failed with the
\* generic message and the response 500 with that message.
C22_FencedAnswerHandledAlike ==
    [][/\ \A aiContent \in AIContents :
              cleanedContent(aiContent) = cleanedContent(Unfenced(aiContent))
       /\ \A i \in Invocations :
              (inv[i].pc = "ai" /\ inv'[i].answer \in AnswersWithoutTransactions) =>
                  /\ inv'[i].pc = "done"
                  /\ inv'[i].resp = ErrorResponse(500, ERROR_MESSAGES.PROCESSING_FAILED)
                  /\ files'[inv[i].fileId].status = "failed"
                  /\ files'[inv[i].fileId].error_message = ERROR_MESSAGES.PROCESSING_FAILED
                  /\ ledger' = ledger
      ]_vars

====
